---- MODULE Spec2Model ----
(***************************************************************************)
(* Verification model of the gist-video backend core:                      *)
(*   audio/edgetts_meta.py  (visible length, line splitting, alignment)    *)
(*   jobs/index_job.py      (shot normalisation)                           *)
(*   jobs/render_job.py     (shot index, timeline scheduler)               *)
(*                                                                         *)
(* Times are integers counting microseconds, so the source's tolerances    *)
(* 1e-6 s, 1e-3 s, 0.02 s, 0.05 s, 0.5 s, 0.8 s are exact integers.        *)
(* A text is a sequence of one-character strings.                          *)
(***************************************************************************)
EXTENDS Integers, Sequences, FiniteSets, TLC

VARIABLES
    \* align_script_parts_to_words: arguments, position, result
    words, parts, total_dur, align_pc, align_out, align_err,
    \* split_one_line: arguments, position, result
    text, max_chars, split_pc, chunks,
    \* _normalize_slices: arguments, position, result
    slices, bounds3, norm_pc, norm_out,
    \* _pick_visual_segments_edgetts: arguments (clips, dedup_window_sec, the
    \* units: n_units of them, unit_times filled in as the loop reads them),
    \* position (sched_pc, ui), locals (shot_map, used, out_t, prev_src,
    \* prev_out_src_t, cand, segments), the error raised, the warnings logged, and
    \* per scheduled unit how it was scheduled (picks)
    clips, dedup_window_sec, n_units, unit_times, sched_pc, ui, shot_map, used, out_t,
    prev_src, prev_out_src_t, cand, segments, sched_err, warnings, picks,
    \* _snap_line_times_to_fps: arguments (voice_dur is its total_dur), position,
    \* results (end_frames kept for inspection, snapped in frames, frames_per)
    line_times, fps, voice_dur, snap_pc, end_frames, snapped, frames_per,
    \* run_index_job, the slicing of each video: job settings (slice_mode,
    \* skip_head, skip_tail, clip_bounds, fixed_clip_sec_fallback), the videos
    \* (n_videos, vi of them finished), the current video (video_dur, the cut
    \* times scene detection reports, whether it raises), locals (shots,
    \* video_clips), the records written (clips_meta), position, warnings logged
    slice_mode, skip_head, skip_tail, clip_bounds, fixed_clip_sec_fallback, n_videos, vi,
    video_dur, cuts, scene_raises, shots, video_clips, clips_meta, index_pc, index_log,
    \* _build_shot_index: argument (index_clips), position (build_pc, the 1-based
    \* build_idx of the next record), locals under construction
    index_clips, build_pc, build_idx, build_map, ids_by_src,
    \* run_render_job: inputs (the state of the metadata file and the words in
    \* it, the probed voice duration, the script units), position, the error
    \* that ended the run, locals (frames_per_line, the number of segments
    \* scheduled) and effects (the scheduler was called, edl.json was written,
    \* the segments rendered so far)
    meta_file, meta_words, probed_dur, script_lines, render_pc, render_err, frames_per_line,
    sched_called, n_segments, edl_written, seg_paths,
    \* _split_script: the script text, the position of the call, the units returned
    script_text, script_pc, script_units,
    \* _partition_words_by_part_weights: the words, the weights, total_dur, the
    \* position of the call and the ranges returned
    pw_words, part_weights, pw_total, pw_pc, groups,
    \* the caption pipeline of run_index_job: inputs (no caption backend, the
    \* backend captions whole clips, the two clamped limits, the number of clips,
    \* the caption cache), locals (clips handled, the queued batch, the requests
    \* in flight and the next future, the clips to retry, the clip texts, the
    \* position in the make-up pass) and the position of the main thread
    cap_is_null, use_groups, cap_in_flight, cap_batch_clips, cap_n, captions, cap_si,
    batch_items, batch_keys, pending, next_fut, failed, clip_texts, cap_ri, cap_pc, cap_ret,
    \* one job of the JobManager: status, the two signals, _events and the
    \* number of events ever emitted, the subscribers (history handed out and
    \* queue contents), the worker thread (position, polling points left, the
    \* exception raised, the status it ended with, the emit it is in and where it
    \* goes on, the number of events emitted when it ended) and the API calls
    status, pause_evt, cancel_evt, events, emitted, subscribers, wpc, polls_left, w_exc,
    w_outcome, w_send, w_after, term_at, calls

alignVars == <<words, parts, total_dur, align_pc, align_out, align_err>>
splitVars == <<text, max_chars, split_pc, chunks>>

normVars == <<slices, bounds3, norm_pc, norm_out>>

schedVars == <<clips, dedup_window_sec, n_units, unit_times, sched_pc, ui, shot_map, used, out_t,
               prev_src, prev_out_src_t, cand, segments, sched_err, warnings, picks>>

snapVars == <<line_times, fps, voice_dur, snap_pc, end_frames, snapped, frames_per>>

indexVars == <<slice_mode, skip_head, skip_tail, clip_bounds, fixed_clip_sec_fallback, n_videos,
               vi, video_dur, cuts, scene_raises, shots, video_clips, clips_meta, index_pc,
               index_log>>

buildVars == <<index_clips, build_pc, build_idx, build_map, ids_by_src>>

renderVars == <<meta_file, meta_words, probed_dur, script_lines, render_pc, render_err,
                frames_per_line, sched_called, n_segments, edl_written, seg_paths>>

scriptVars == <<script_text, script_pc, script_units>>

partVars == <<pw_words, part_weights, pw_total, pw_pc, groups>>

capVars == <<cap_is_null, use_groups, cap_in_flight, cap_batch_clips, cap_n, captions, cap_si,
             batch_items, batch_keys, pending, next_fut, failed, clip_texts, cap_ri, cap_pc,
             cap_ret>>

jobVars == <<status, pause_evt, cancel_evt, events, emitted, subscribers, wpc, polls_left,
             w_exc, w_outcome, w_send, w_after, term_at, calls>>

vars == <<alignVars, splitVars, normVars, schedVars, snapVars, indexVars, buildVars,
          renderVars, scriptVars, partVars, capVars, jobVars>>

----------------------------------------------------------------------------
(* Generic helpers *)

Max2(a, b) == IF a >= b THEN a ELSE b
Min2(a, b) == IF a <= b THEN a ELSE b

\* Python's None where a time is optional (no time is negative)
None == 0 - 1

RECURSIVE Concat(_)
Concat(ss) == IF ss = <<>> THEN <<>> ELSE Head(ss) \o Concat(Tail(ss))

\* All sequences over S of length lo..hi
SeqsOf(S, lo, hi) == UNION {[1..n -> S] : n \in lo..hi}

----------------------------------------------------------------------------
(* Character classes (edgetts_meta.py) *)

\* Latin letters (they stand for digits too)
SpokenChars == {"a", "b"}
\* the CJK ideographs for one to nine, written c1..c9, each one character
CjkChars == {"c1", "c2", "c3", "c4", "c5", "c6", "c7", "c8", "c9"}
\* members of _PUNCT: "," stands for the fullwidth comma too, "." for the
\* ideographic full stop
PunctChars == {",", "."}
\* matched by \s
SpaceChars == {" "}
\* visible symbols that are neither spoken nor in _PUNCT (quotes, brackets)
OtherChars == {"'"}

\* _SPACE_RE.sub("", s)
StripSpaces(s) == SelectSeq(s, LAMBDA ch : ch \notin SpaceChars)

\* str(x).strip() is non-empty
NonBlank(s) == \E i \in 1..Len(s) : s[i] \notin SpaceChars

\* _clean_spoken
_clean_spoken(s) == SelectSeq(s, LAMBDA ch : ch \in SpokenChars \cup CjkChars)

----------------------------------------------------------------------------
(* align_script_parts_to_words (edgetts_meta.py) *)

\* floor of the 0.02 s minimum unit length enforced by the final pass
MinUnitDur == 20000

\* the units as given, blank ones included
StripPartsKeep(ps) == ps

\* parts = [str(x).strip() for x in parts if str(x).strip()]
StripParts(ps) == SelectSeq(ps, NonBlank)

\* word_map: indices (1-based) of the words that keep a spoken character
word_map(ws) ==
    SelectSeq([i \in 1..Len(ws) |-> i], LAMBDA i : _clean_spoken(ws[i].text) # <<>>)

\* word_tok: the cleaned text of those words
word_tok(ws) ==
    LET wm == word_map(ws) IN [k \in 1..Len(wm) |-> _clean_spoken(ws[wm[k]].text)]

\* part_tok
part_tok(ps) == [j \in 1..Len(ps) |-> _clean_spoken(ps[j])]

\* cum_end[k]: number of cleaned characters in the first k tokens
cum_end(toks, k) == Len(Concat(SubSeq(toks, 1, k)))

\* bisect_left(cum_end, x) on the strictly increasing cum_end
bisect_left_cum(toks, x) == Cardinality({k \in 1..Len(toks) : cum_end(toks, k) < x})

_pos_to_tok_idx(toks, char_pos) ==
    IF char_pos <= 0 THEN 0
    ELSE Min2(Len(toks), bisect_left_cum(toks, char_pos) + 1)

\* bounds_tok (0-based token boundaries, stored at positions 1..n+1)
bounds_tok(toks, ptok) ==
    LET n == Len(ptok) IN
    [j \in 1..(n + 1) |->
        IF j = 1 THEN 0
        ELSE IF j = n + 1 THEN Len(toks)
        ELSE _pos_to_tok_idx(toks, Len(Concat(SubSeq(ptok, 1, j - 1))))]

\* ranges, then starts/ends: first word's start and last word's end of each range
RawTimes(ws, ptok) ==
    LET wm == word_map(ws)
        toks == word_tok(ws)
        bt == bounds_tok(toks, ptok)
    IN  [j \in 1..Len(ptok) |->
            LET a_t == Max2(0, Min2(Len(wm) - 1, bt[j]))
                b_t == Max2(a_t + 1, Min2(Len(wm), bt[j + 1]))
            IN  [st |-> ws[wm[a_t + 1]].start, en |-> ws[wm[b_t]].end]]

\* the midpoint pass left out: each unit keeps its own words' times
SplitGapsNone(raw) == raw

\* the shared boundary put at the end of the earlier unit's last word
SplitGapsLeft(raw) ==
    [j \in 1..Len(raw) |->
        [st |-> IF j > 1 THEN raw[j - 1].en ELSE raw[j].st, en |-> raw[j].en]]

\* "Split gaps by midpoint": ends[i] = starts[i+1] = 0.5 * (ends[i] + starts[i+1])
SplitGaps(raw) ==
    LET n == Len(raw)
        mid(i) == (raw[i].en + raw[i + 1].st) \div 2
    IN  [j \in 1..n |->
            [st |-> IF j > 1 THEN mid(j - 1) ELSE raw[j].st,
             en |-> IF j < n THEN mid(j) ELSE raw[j].en]]

\* if total_dur is not None: starts[0] = 0.0; ends[-1] = total_dur
ForceTotal(ts, td) ==
    IF td = None \/ ts = <<>> THEN ts
    ELSE [j \in 1..Len(ts) |->
            [st |-> IF j = 1 THEN 0 ELSE ts[j].st,
             en |-> IF j = Len(ts) THEN td ELSE ts[j].en]]

\* final pass: st = max(prev, st); en = max(st + 0.02, en); prev = en
RECURSIVE FixMonotone(_, _)
FixMonotone(ts, prev) ==
    IF ts = <<>> THEN <<>>
    ELSE LET st == Max2(prev, Head(ts).st)
             en == Max2(st + MinUnitDur, Head(ts).en)
         IN  <<[st |-> st, en |-> en]>> \o FixMonotone(Tail(ts), en)

\* a comparison of the lengths only
TextsDifferLen(ptok, toks) == Len(Concat(ptok)) # Len(Concat(toks))

\* whole_script != whole_words
TextsDiffer(ptok, toks) == Concat(ptok) # Concat(toks)

\* The whole function: err is "" on a normal return, else the kind of RuntimeError
align_script_parts_to_words(ws, ps0, td) ==
    LET ps == StripParts(ps0)
        toks == word_tok(ws)
        ptok == part_tok(ps)
    IN  IF ps = <<>> THEN [err |-> "", out |-> <<>>]
        ELSE IF ws = <<>> THEN [err |-> "missing_words", out |-> <<>>]
        ELSE IF toks = <<>> THEN [err |-> "empty_words", out |-> <<>>]
        ELSE IF \E j \in 1..Len(ptok) : ptok[j] = <<>>
             THEN [err |-> "empty_part", out |-> <<>>]
        ELSE IF TextsDiffer(ptok, toks) THEN [err |-> "mismatch", out |-> <<>>]
        ELSE [err |-> "",
              out |-> FixMonotone(ForceTotal(SplitGaps(RawTimes(ws, ptok)), td), 0)]

----------------------------------------------------------------------------
(* _visible_len_zh and split_one_line (edgetts_meta.py) *)

\* _visible_len_zh: whitespace and _PUNCT do not count, every other character does
_visible_len_zh(s) == Len(SelectSeq(s, LAMBDA ch : ch \notin SpaceChars /\ ch \notin PunctChars))

\* the punctuation bookkeeping of a buffer: position after its last punctuation
\* mark (0-based end index, -1 if none) and the visible count before that mark
PunctInfo(cur) ==
    LET P == {i \in 1..Len(cur) : cur[i] \in PunctChars} IN
    IF P = {} THEN [pos |-> 0 - 1, n |-> 0]
    ELSE LET i == CHOOSE x \in P : \A y \in P : y <= x
         IN  [pos |-> i, n |-> Len(SelectSeq(SubSeq(cur, 1, i), LAMBDA ch : ch \notin PunctChars))]

\* flush_at(pos)
flush_at(st, pos) ==
    IF pos <= 0 THEN st
    ELSE LET rest == SubSeq(st.cur, pos + 1, Len(st.cur))
             pi == PunctInfo(rest)
         IN  [out |-> Append(st.out, SubSeq(st.cur, 1, pos)),
              cur |-> rest,
              cur_n |-> _visible_len_zh(rest),
              last_punct_pos |-> pi.pos,
              last_punct_n |-> pi.n]

\* a hard cut one character too late
HardCutLate(cur, mc) ==
    LET V == {i \in 1..Len(cur) :
                Len(SelectSeq(SubSeq(cur, 1, i), LAMBDA ch : ch \notin PunctChars)) > mc}
    IN  IF V = {} THEN 0 ELSE CHOOSE i \in V : \A j \in V : i <= j

\* the hard cut: 0-based index of the first character at which the visible count
\* exceeds max_chars (0 if there is none)
HardCut(cur, mc) ==
    LET V == {i \in 1..Len(cur) :
                Len(SelectSeq(SubSeq(cur, 1, i), LAMBDA ch : ch \notin PunctChars)) > mc}
    IN  IF V = {} THEN 0 ELSE (CHOOSE i \in V : \A j \in V : i <= j) - 1

\* a cut at any earlier punctuation mark, however short the chunk
PreferPunctAny(st, mc) == st.last_punct_pos > 0

\* "Prefer flushing at last punctuation if it keeps the chunk reasonably sized."
PreferPunct(st, mc) == st.last_punct_pos > 0 /\ st.last_punct_n >= Max2(4, mc \div 2)

\* one iteration of "for ch in s"
SplitStep(st, ch, mc) ==
    LET cur1 == Append(st.cur, ch)
        st1 == IF ch \in PunctChars
               THEN [st EXCEPT !.cur = cur1, !.last_punct_pos = Len(cur1),
                               !.last_punct_n = st.cur_n]
               ELSE [st EXCEPT !.cur = cur1, !.cur_n = st.cur_n + 1]
    IN  IF st1.cur_n <= mc THEN st1
        ELSE IF PreferPunct(st1, mc)
             THEN flush_at(st1, st1.last_punct_pos)
        ELSE LET cut0 == HardCut(st1.cur, mc)
                 cut == IF cut0 <= 0 THEN Max2(1, Len(st1.cur) - 1) ELSE cut0
             IN  flush_at(st1, cut)

RECURSIVE SplitLoop(_, _, _)
SplitLoop(st, s, mc) ==
    IF s = <<>> THEN st ELSE SplitLoop(SplitStep(st, Head(s), mc), Tail(s), mc)

split_one_line(txt, mc0) ==
    LET s == StripSpaces(txt)
        mc == Max2(1, mc0)
        st0 == [out |-> <<>>, cur |-> <<>>, cur_n |-> 0,
                last_punct_pos |-> 0 - 1, last_punct_n |-> 0]
        fin == SplitLoop(st0, s, mc)
        all == IF NonBlank(fin.cur) THEN Append(fin.out, fin.cur) ELSE fin.out
    IN  IF s = <<>> THEN <<>> ELSE SelectSeq(all, NonBlank)

(* Inputs of the split specification *)

\* longest text
MaxTextLen == 7
\* largest max_chars
MaxMaxChars == 5

SplitChars == {"a", "'", ",", " "}

\* the text of the documented scenario: three groups of three ideographs, the
\* first closed by a comma, the second by a full stop
ScenarioText == <<"c1", "c2", "c3", ",", "c4", "c5", "c6", ".", "c7", "c8", "c9">>

SplitInit ==
    /\ text \in SeqsOf(SplitChars, 0, MaxTextLen) \cup {ScenarioText}
    /\ max_chars \in 1..MaxMaxChars
    /\ split_pc = "start"
    /\ chunks = <<>>

SplitIdle ==
    /\ text = <<>>
    /\ max_chars = 1
    /\ split_pc = "idle"
    /\ chunks = <<>>

SplitCall ==
    /\ split_pc = "start"
    /\ chunks' = split_one_line(text, max_chars)
    /\ split_pc' = "done"
    /\ UNCHANGED <<text, max_chars>>

(* Inputs of the alignment specification *)

\* largest number of word tokens
MaxWords == 2

\* word texts: a one-character word, a two-character word, a punctuation token
WordTexts == {<<"a">>, <<"a", "b">>, <<",">>}

\* word start/end times (even, so a midpoint is an integer)
WordTimes == {0, 10000, 40000}

\* load_edgetts_meta: end = start + Duration, and the list is sorted by (start, end)
SortedWords(ws) ==
    \A i \in 1..(Len(ws) - 1) :
        \/ ws[i].start < ws[i + 1].start
        \/ ws[i].start = ws[i + 1].start /\ ws[i].end <= ws[i + 1].end

WordItems == {w \in [text : WordTexts, start : WordTimes, end : WordTimes] : w.start <= w.end}

WordLists == {ws \in SeqsOf(WordItems, 0, MaxWords) : SortedWords(ws)}

\* word lists with a fixed timing, one 40 ms word after the other
FixedWordLists ==
    {[i \in 1..Len(ts) |-> [text |-> ts[i], start |-> (i - 1) * 40000, end |-> i * 40000]] :
        ts \in SeqsOf(WordTexts, 0, MaxWords)}

TotalDurs == {None, 10000, 80000}

\* the strings one inserted, deleted or substituted spoken character away from s
Edits(s) ==
    {SubSeq(s, 1, i - 1) \o SubSeq(s, i + 1, Len(s)) : i \in 1..Len(s)}
    \cup {SubSeq(s, 1, i) \o <<c>> \o SubSeq(s, i + 1, Len(s)) : i \in 0..Len(s), c \in SpokenChars}
    \cup {[s EXCEPT ![i] = c] : <<i, c>> \in {x \in (1..Len(s)) \X SpokenChars : s[x[1]] # x[2]}}

\* the cut positions of C in increasing order, between 0 and n
RECURSIVE SortedSeq(_)
SortedSeq(S) ==
    IF S = {} THEN <<>>
    ELSE LET m == CHOOSE x \in S : \A y \in S : x <= y IN <<m>> \o SortedSeq(S \ {m})

\* s cut into units after the positions of C
Segment(s, C) ==
    IF s = <<>> THEN <<>>
    ELSE LET pts == SortedSeq({0, Len(s)} \cup C)
         IN  [j \in 1..(Len(pts) - 1) |-> SubSeq(s, pts[j] + 1, pts[j + 1])]

Segmentations(s) == {Segment(s, C) : C \in SUBSET (1..(Len(s) - 1))}

\* a unit as the script writes it: bare, closed by punctuation, or quoted and padded
Decors == {"plain", "punct", "quoted"}

Decorate(u, d) ==
    CASE d = "plain" -> u
      [] d = "punct" -> u \o <<",">>
      [] d = "quoted" -> <<" ", "'">> \o u \o <<"'", " ">>

\* units without any spoken character added to the script
Extras == {"none", "blank_last", "punct_first"}

WithExtra(us, x) ==
    CASE x = "none" -> us
      [] x = "blank_last" -> us \o <<<<" ">>>>
      [] x = "punct_first" -> <<<<",">>>> \o us

\* scripts that say exactly what the words say
MatchingScripts(ws) ==
    {WithExtra([j \in 1..Len(us) |-> Decorate(us[j], d)], x) :
        <<us, d, x>> \in Segmentations(Concat(word_tok(ws))) \X Decors \X Extras}

\* scripts one spoken character away from the words
EditedScripts(ws) ==
    UNION {Segmentations(e) : e \in Edits(Concat(word_tok(ws)))}

AlignInit ==
    /\ \/ /\ words \in WordLists
          /\ parts \in MatchingScripts(words)
          /\ total_dur \in TotalDurs
       \/ /\ words \in FixedWordLists
          /\ parts \in EditedScripts(words)
          /\ total_dur = None
    /\ align_pc = "start"
    /\ align_out = <<>>
    /\ align_err = ""

\* one call of the function
AlignCall ==
    /\ align_pc = "start"
    /\ LET r == align_script_parts_to_words(words, parts, total_dur)
       IN  /\ align_out' = r.out
           /\ align_err' = r.err
    /\ align_pc' = "done"
    /\ UNCHANGED <<words, parts, total_dur>>

AlignIdle ==
    /\ words = <<>>
    /\ parts = <<>>
    /\ total_dur = None
    /\ align_pc = "idle"
    /\ align_out = <<>>
    /\ align_err = ""

----------------------------------------------------------------------------
(* _normalize_slices (index_job.py).  A slice is a record [s, e]. *)

\* 0.5 s: the floor of min_sec, the shortest kept slice, the margin of a cut
HalfSec == 500000
\* the 1e-6 s tolerance of the "longer than max_sec" test
Eps6 == 1
\* one millisecond: round(x, 3) keeps multiples of it
Milli == 1000

\* round(x, 3): the nearest millisecond, a tie to the even one
Round3(x) ==
    LET r == x % Milli
        lo == x - r
    IN  IF 2 * r < Milli THEN lo
        ELSE IF 2 * r > Milli THEN lo + Milli
        ELSE IF (lo \div Milli) % 2 = 0 THEN lo ELSE lo + Milli

\* min_sec, max_sec, target_sec after the clamps of the first three lines
EffMin(b) == Max2(HalfSec, b.min)
EffMax(b) == Max2(EffMin(b), b.max)
EffTarget(b) == Max2(EffMin(b), Min2(b.target, EffMax(b)))

\* merge pass: a current slice shorter than min_sec swallows the next one
RECURSIVE MergeLoop(_, _, _, _)
MergeLoop(cur, rest, merged, mn) ==
    IF rest = <<>> THEN Append(merged, cur)
    ELSE IF cur.e - cur.s < mn
         THEN MergeLoop([cur EXCEPT !.e = Head(rest).e], Tail(rest), merged, mn)
         ELSE MergeLoop(Head(rest), Tail(rest), Append(merged, cur), mn)

\* "If the last slice is still too short, merge it back."
MergeBack(m, mn) ==
    LET n == Len(m) IN
    IF n >= 2 /\ m[n].e - m[n].s < mn
    THEN Append(SubSeq(m, 1, n - 2), [s |-> m[n - 1].s, e |-> m[n].e])
    ELSE m

\* the cut of a long slice without the pull-back that spares the remainder
NextCutPlain(s, e, mn, tg) == Max2(s + HalfSec, Min2(s + tg, e - HalfSec))

\* the cut point of one iteration of _split_one
NextCut(s, e, mn, tg) ==
    LET nxt0 == s + tg
        nxt1 == IF e - nxt0 < mn THEN e - mn ELSE nxt0
    IN  Max2(s + HalfSec, Min2(nxt1, e - HalfSec))

RECURSIVE _split_one(_, _, _, _, _)
_split_one(s, e, mn, tg, mx) ==
    IF e - s > mx + Eps6
    THEN LET nxt == NextCut(s, e, mn, tg)
         IN  <<[s |-> s, e |-> nxt]>> \o _split_one(nxt, e, mn, tg, mx)
    ELSE <<[s |-> s, e |-> e]>>

RECURSIVE SplitAll(_, _, _, _)
SplitAll(m, mn, tg, mx) ==
    IF m = <<>> THEN <<>>
    ELSE _split_one(Head(m).s, Head(m).e, mn, tg, mx) \o SplitAll(Tail(m), mn, tg, mx)

\* final cleanup: a short slice joins the previous one, re-split if too long
RECURSIVE Cleanup(_, _, _, _, _)
Cleanup(split, cleaned, mn, tg, mx) ==
    IF split = <<>> THEN cleaned
    ELSE LET x == Head(split)
             n == Len(cleaned)
         IN  IF cleaned # <<>> /\ x.e - x.s < mn
             THEN LET ps == cleaned[n].s
                      front == SubSeq(cleaned, 1, n - 1)
                  IN  IF x.e - ps > mx + Eps6
                      THEN Cleanup(Tail(split), front \o _split_one(ps, x.e, mn, tg, mx), mn, tg, mx)
                      ELSE Cleanup(Tail(split), Append(front, [s |-> ps, e |-> x.e]), mn, tg, mx)
             ELSE Cleanup(Tail(split), Append(cleaned, x), mn, tg, mx)

\* the returned list: slices of at least 0.5 s, rounded to milliseconds
RoundKeep(cleaned) ==
    LET kept == SelectSeq(cleaned, LAMBDA x : x.e - x.s >= HalfSec)
    IN  [i \in 1..Len(kept) |-> [s |-> Round3(kept[i].s), e |-> Round3(kept[i].e)]]

_normalize_slices(sl, b) ==
    LET mn == EffMin(b)
        mx == EffMax(b)
        tg == EffTarget(b)
    IN  IF sl = <<>> THEN <<>>
        ELSE LET merged == MergeBack(MergeLoop(sl[1], Tail(sl), <<>>, mn), mn)
                 split == SplitAll(merged, mn, tg, mx)
             IN  RoundKeep(Cleanup(split, <<>>, mn, tg, mx))

(* Inputs of the normalisation specification *)

\* slice boundaries lie on a grid of half seconds, 0..MaxGrid
MaxGrid == 8
\* largest number of input slices
MaxSlices == 3

GridTimes == {k * HalfSec : k \in 0..MaxGrid}

\* (min, target, max) with min <= target <= max: the defaults of settings.py, the
\* defaults divided by three, one with target = max = 2 * min, two triples with
\* max < 2 * min, one with min < 0.5 s
BoundTriples ==
    { [min |-> 3000000, target |-> 4500000, max |-> 6000000],
      [min |-> 1000000, target |-> 1500000, max |-> 2000000],
      [min |-> 1000000, target |-> 2000000, max |-> 2000000],
      [min |-> 1500000, target |-> 1500000, max |-> 2000000],
      [min |-> 1000000, target |-> 1000000, max |-> 1000000],
      [min |-> 250000, target |-> 1000000, max |-> 1500000] }

\* slices as the slicers produce them: in order, disjoint, each at least 0.5 s;
\* the lists of at most n slices that start at or after time t
RECURSIVE SliceListsFrom(_, _)
SliceListsFrom(t, n) ==
    {<<>>} \cup
    (IF n = 0 THEN {}
     ELSE UNION {{<<[s |-> x[1], e |-> x[2]]>> \o rest : rest \in SliceListsFrom(x[2], n - 1)} :
                    x \in {y \in GridTimes \X GridTimes : y[1] >= t /\ y[2] - y[1] >= HalfSec}})

SliceLists == SliceListsFrom(0, MaxSlices)

NormInit ==
    /\ slices \in SliceLists
    /\ bounds3 \in BoundTriples
    /\ norm_pc = "start"
    /\ norm_out = <<>>

NormIdle ==
    /\ slices = <<>>
    /\ bounds3 = [min |-> 0, target |-> 0, max |-> 0]
    /\ norm_pc = "idle"
    /\ norm_out = <<>>

NormCall ==
    /\ norm_pc = "start"
    /\ norm_out' = _normalize_slices(slices, bounds3)
    /\ norm_pc' = "done"
    /\ UNCHANGED <<slices, bounds3>>

----------------------------------------------------------------------------
(* _build_shot_index and _pick_visual_segments_edgetts (render_job.py).        *)
(* A clip record is [source_path, shot_id, shot_start, shot_end, start, end,    *)
(* text, heavy]: source_path "" and shot_id -1 stand for a missing field, text  *)
(* is the set of hint phrases the caption contains, heavy the subtitle_heavy    *)
(* flag.  Scores count hundredths.                                              *)

\* the least target duration, 0.05 s
MinTarget == 50000
\* min_same_source_gap_sec, 0.8 s
MinSameSourceGap == 800000
\* a shift of the window must exceed 1e-3 s
MinShift == 1000
\* cand[:240]
CandLimit == 240
\* match_keyword_boost 0.05 and match_penalty_subtitle_heavy 0.06
KeywordBoost == 5
SubtitleHeavyPenalty == 6

\* a record missing its source path also counts
ValidClipLoose(c) == c.shot_id >= 0

\* not (sid < 0 or not src)
ValidClip(c) == c.shot_id >= 0 /\ c.source_path # ""

ShotKeyOf(c) == <<c.source_path, c.shot_id>>

\* the shot bounds as recorded, valid or not
ClipShotBoundsRaw(c) == [ss |-> c.shot_start, se |-> c.shot_end]

\* ss, se of a clip: its shot bounds, or its own window when those are invalid
ClipShotBounds(c) ==
    IF c.shot_end <= c.shot_start + Eps6
    THEN [ss |-> c.start, se |-> c.end]
    ELSE [ss |-> c.shot_start, se |-> c.shot_end]

SetMin(S) == CHOOSE x \in S : \A y \in S : x <= y
SetMax(S) == CHOOSE x \in S : \A y \in S : x >= y

\* the keys of shot_map
ShotKeys(cs) == {ShotKeyOf(cs[i]) : i \in {j \in 1..Len(cs) : ValidClip(cs[j])}}

\* shot_map: per key the widest bounds seen and the clip indices, in order
_build_shot_index(cs) ==
    [k \in ShotKeys(cs) |->
        LET idx == SelectSeq([i \in 1..Len(cs) |-> i],
                             LAMBDA i : ValidClip(cs[i]) /\ ShotKeyOf(cs[i]) = k)
            I == {idx[j] : j \in 1..Len(idx)}
        IN  [source |-> k[1], shot_id |-> k[2],
             start |-> SetMin({ClipShotBounds(cs[i]).ss : i \in I}),
             end |-> SetMax({ClipShotBounds(cs[i]).se : i \in I}),
             clip_idxs |-> idx]]

\* the keys in the order a dict filled clip by clip iterates them
RECURSIVE KeyOrder(_, _)
KeyOrder(cs, i) ==
    IF i > Len(cs) THEN <<>>
    ELSE IF ValidClip(cs[i]) /\ \A j \in 1..(i - 1) : ~(ValidClip(cs[j]) /\ ShotKeyOf(cs[j]) = ShotKeyOf(cs[i]))
         THEN <<ShotKeyOf(cs[i])>> \o KeyOrder(cs, i + 1)
         ELSE KeyOrder(cs, i + 1)

\* _overlap_bonus: the number of hints found in the clip text
_overlap_bonus(hints, clip_text) == Cardinality(hints \cap clip_text)

_clip_adj_score(score, c, hints) ==
    score + KeywordBoost * _overlap_bonus(hints, c.text)
          - (IF SubtitleHeavyPenalty > 0 /\ c.heavy THEN SubtitleHeavyPenalty ELSE 0)

\* shot_best[key] = (adj, ci, hit) of the first clip of the shot with the highest adj
shot_best(k, cs, scores, hints) ==
    LET I == {i \in 1..Len(cs) : ValidClip(cs[i]) /\ ShotKeyOf(cs[i]) = k}
        adj == [i \in I |-> _clip_adj_score(scores[i], cs[i], hints)]
        ci == SetMin({i \in I : \A j \in I : adj[j] <= adj[i]})
    IN  [sc |-> adj[ci], ci |-> ci, hit |-> _overlap_bonus(hints, cs[ci].text)]

ShotLen(m) == Max2(0, m.end - m.start)

\* the candidate tuple (hit, score, shot_len, src, sid, ci) of each shot of
\* shot_best that shot_map knows, in the order shot_best iterates
RECURSIVE ShotCands(_, _, _, _, _)
ShotCands(ks, cs, sm, scores, hints) ==
    IF ks = <<>> THEN <<>>
    ELSE LET k == Head(ks)
             b == shot_best(k, cs, scores, hints)
             rest == ShotCands(Tail(ks), cs, sm, scores, hints)
         IN  IF k \notin DOMAIN sm THEN rest
             ELSE <<[hit |-> b.hit, sc |-> b.sc, shot_len |-> ShotLen(sm[k]),
                     src |-> k[1], sid |-> k[2], ci |-> b.ci]>> \o rest

\* the shot is long enough: not (shot_len + 1e-6 < target)
Fits(shot_len, target) == ~(shot_len + Eps6 < target)

\* the cooldown test left out
InCooldownNever(k, usedm, now, window) == FALSE

\* used within the cooldown window: last is not None and out_t - last < dedup_window_sec
InCooldown(k, usedm, now, window) == usedm[k] # None /\ (now - usedm[k]) < window

\* tier 1: long enough and outside the cooldown window
Tier1(all, target, usedm, now, window) ==
    SelectSeq(all, LAMBDA x : Fits(x.shot_len, target)
                              /\ ~InCooldown(<<x.src, x.sid>>, usedm, now, window))

\* the fallback left out
Tier2None(all, target) == <<>>

\* tier 2 ("Fallback A"): long enough, cooldown ignored
Tier2(all, target) == SelectSeq(all, LAMBDA x : Fits(x.shot_len, target))

\* the sort key (hit, score, shot_len) compared as Python compares tuples
KeyGreater(x, y) ==
    \/ x.hit > y.hit
    \/ x.hit = y.hit /\ x.sc > y.sc
    \/ x.hit = y.hit /\ x.sc = y.sc /\ x.shot_len > y.shot_len

\* the candidates left in the order the tier filter produced them
SortNone(cs) == cs

\* cand.sort(key=..., reverse=True): descending and stable
RECURSIVE SortDesc(_)
SortDesc(cs) ==
    IF cs = <<>> THEN <<>>
    ELSE LET x == cs[Len(cs)]
             front == SortDesc(SubSeq(cs, 1, Len(cs) - 1))
             \* x goes after every element that is not smaller than it
             n == Cardinality({j \in 1..Len(front) : ~KeyGreater(x, front[j])})
         IN  SubSeq(front, 1, n) \o <<x>> \o SubSeq(front, n + 1, Len(front))

\* "Prefer candidates with lexical hits when available", then the sort
RankCands(cs) ==
    LET hits == SelectSeq(cs, LAMBDA x : x.hit > 0)
    IN  SortDesc(IF hits # <<>> THEN hits ELSE cs)

\* the window centred on the clip's midpoint, not clamped to the shot
CenterMid(c, m, target) == (c.start + c.end) \div 2 - target \div 2

\* in_t = max(ss, min(mid - target / 2, se - target)) with mid the clip's midpoint
CenterIn(c, m, target) ==
    Max2(m.start, Min2((c.start + c.end) \div 2 - target \div 2, m.end - target))

\* the loop body without the same-source shift
TryCandNoShift(x, cs, sm, target, psrc, pout) ==
    [ok |-> TRUE, in |-> CenterIn(cs[x.ci], sm[<<x.src, x.sid>>], target)]

\* one pass of the loop body for a candidate: skip it, or the window it gets
TryCand(x, cs, sm, target, psrc, pout) ==
    LET m == sm[<<x.src, x.sid>>]
        in0 == CenterIn(cs[x.ci], m, target)
    IN  IF (m.end - m.start) + Eps6 < target THEN [ok |-> FALSE, in |-> 0]
        ELSE IF psrc # "" /\ pout # None /\ x.src = psrc /\ in0 < pout + Max2(0, MinSameSourceGap)
             THEN LET shifted == Min2(Max2(in0, pout + Max2(0, MinSameSourceGap)), m.end - target)
                  IN  IF shifted > in0 + MinShift
                      THEN [ok |-> TRUE, in |-> shifted]
                      ELSE [ok |-> FALSE, in |-> 0]
             ELSE [ok |-> TRUE, in |-> in0]

\* the first candidate of cand[:240] that is not skipped (0 if all are)
FirstAccepted(ranked, cs, sm, target, psrc, pout) ==
    LET lim == Min2(Len(ranked), CandLimit)
        A == {j \in 1..lim : TryCand(ranked[j], cs, sm, target, psrc, pout).ok}
    IN  IF A = {} THEN 0 ELSE SetMin(A)

\* tier 3 ("Absolute fallback"): the loop header unpacks each value of shot_best,
\* a 3-tuple (adj, ci, hit), into the two names (_sc, ci); Python raises
\* ValueError on the first entry, and with no entry best_long stays None
Tier3(ks) == IF ks = <<>> THEN "no_usable_shots" ELSE "unpack_error"

\* a segment that always carries the index of the first unit
ChosenFirstUnit(x, m, in_t, target, u, tm) ==
    [unit_i |-> 0, source |-> x.src, in |-> in_t, out |-> in_t + target,
     shot_id |-> x.sid, shot_start |-> m.start, shot_end |-> m.end,
     hit |-> x.hit, score |-> x.sc, anchor_ci |-> x.ci,
     start |-> tm.st, end |-> tm.en]

\* the dict appended to segments
Chosen(x, m, in_t, target, u, tm) ==
    [unit_i |-> u, source |-> x.src, in |-> in_t, out |-> in_t + target,
     shot_id |-> x.sid, shot_start |-> m.start, shot_end |-> m.end,
     hit |-> x.hit, score |-> x.sc, anchor_ci |-> x.ci,
     start |-> tm.st, end |-> tm.en]

(* Inputs of the scheduler specification *)

\* largest number of narration units
MaxUnits == 2

\* the clip records an index may hold, in index order: a record without source
\* path, shot B#0 (2 s), two windows of shot A#0 (4 s), shot A#1 (1 us short of
\* 3 s, subtitle heavy), a record without shot id
ClipPool ==
    << [source_path |-> "", shot_id |-> 0, shot_start |-> 0, shot_end |-> 9000000,
        start |-> 0, end |-> 9000000, text |-> {"k1"}, heavy |-> FALSE],
       [source_path |-> "B", shot_id |-> 0, shot_start |-> 1000000, shot_end |-> 3000000,
        start |-> 1000000, end |-> 3000000, text |-> {"k2"}, heavy |-> FALSE],
       [source_path |-> "A", shot_id |-> 0, shot_start |-> 0, shot_end |-> 4000000,
        start |-> 0, end |-> 2000000, text |-> {"k1"}, heavy |-> FALSE],
       [source_path |-> "A", shot_id |-> 0, shot_start |-> 0, shot_end |-> 4000000,
        start |-> 2000000, end |-> 4000000, text |-> {}, heavy |-> FALSE],
       [source_path |-> "A", shot_id |-> 1, shot_start |-> 4000000, shot_end |-> 6999999,
        start |-> 4000000, end |-> 6000000, text |-> {"k1", "k2"}, heavy |-> TRUE],
       [source_path |-> "B", shot_id |-> 0 - 1, shot_start |-> 0, shot_end |-> 9000000,
        start |-> 0, end |-> 9000000, text |-> {"k2"}, heavy |-> FALSE] >>

\* the indexes: the runs of consecutive records of the pool, the empty one included
Indexes == {SubSeq(ClipPool, i, j) : i \in 1..(Len(ClipPool) + 1), j \in 0..Len(ClipPool)}

\* dedup_window_sec (whole seconds)
DedupWindows == {0, 3000000, 60000000}

\* unit durations: below the 0.05 s floor, 2 s, 3 s, longer than every shot
UnitDurs == {20000, 2000000, 3000000, 5000000}

HintSets == {{}, {"k1"}, {"k1", "k2"}}

\* similarity of the unit to the clips, in hundredths: every clip 0, or one
\* clip 8 and the others 0
ScoreRows(cs) ==
    {[i \in 1..Len(cs) |-> 0]} \cup {[i \in 1..Len(cs) |-> IF i = h THEN 8 ELSE 0] : h \in 1..Len(cs)}

SchedInit ==
    /\ clips \in Indexes
    /\ dedup_window_sec \in DedupWindows
    /\ n_units \in 0..MaxUnits
    /\ unit_times = <<>>
    /\ sched_pc = "start"
    /\ ui = 0
    /\ shot_map = <<>>
    /\ used = <<>>
    /\ out_t = 0
    /\ prev_src = ""
    /\ prev_out_src_t = None
    /\ cand = <<>>
    /\ segments = <<>>
    /\ sched_err = ""
    /\ warnings = 0
    /\ picks = <<>>

SchedIdle ==
    /\ clips = <<>>
    /\ dedup_window_sec = 0
    /\ n_units = 0
    /\ unit_times = <<>>
    /\ sched_pc = "idle"
    /\ ui = 0
    /\ shot_map = <<>>
    /\ used = <<>>
    /\ out_t = 0
    /\ prev_src = ""
    /\ prev_out_src_t = None
    /\ cand = <<>>
    /\ segments = <<>>
    /\ sched_err = ""
    /\ warnings = 0
    /\ picks = <<>>

\* lines 866-891: no unit returns []; an index without any shot raises; else
\* the pass starts with nothing used
SchedBegin ==
    /\ sched_pc = "start"
    /\ IF n_units = 0
       THEN sched_pc' = "done" /\ UNCHANGED <<shot_map, used, sched_err>>
       ELSE /\ shot_map' = _build_shot_index(clips)
            /\ IF ShotKeys(clips) = {}
               THEN sched_pc' = "failed" /\ sched_err' = "missing_shots" /\ UNCHANGED used
               ELSE /\ sched_pc' = "loop"
                    /\ used' = [k \in ShotKeys(clips) |-> None]
                    /\ UNCHANGED sched_err
    /\ UNCHANGED <<clips, dedup_window_sec, n_units, unit_times, ui, out_t, prev_src,
                   prev_out_src_t, cand, segments, warnings, picks>>

\* the chosen shot left without a last-used time
MarkUsedNever(u, key, t) == u

\* used[_shot_key(chosen["source"], chosen["shot_id"])] = float(out_t)
MarkUsed(u, key, t) == [u EXCEPT ![key] = t]

\* lines 984-1063 for a non-empty candidate list: rank, walk cand[:240], fall
\* back to cand[0], append the segment and update the bookkeeping
SchedPick(tier, cs, target, tm) ==
    \E ranked \in {RankCands(cs)} :
    \E j \in {FirstAccepted(ranked, clips, shot_map, target, prev_src, prev_out_src_t)} :
    \E x \in {ranked[IF j = 0 THEN 1 ELSE j]} :
    \E in_t \in {IF j = 0 THEN CenterIn(clips[x.ci], shot_map[<<x.src, x.sid>>], target)
                 ELSE TryCand(x, clips, shot_map, target, prev_src, prev_out_src_t).in} :
        /\ cand' = ranked
        /\ segments' = Append(segments,
                              Chosen(x, shot_map[<<x.src, x.sid>>], in_t, target, ui, tm))
        /\ used' = MarkUsed(used, <<x.src, x.sid>>, out_t)
        /\ prev_src' = x.src
        /\ prev_out_src_t' = in_t + target
        /\ out_t' = out_t + target
        /\ ui' = ui + 1
        /\ picks' = Append(picks, [tier |-> tier, at |-> out_t, target |-> target, rank |-> j])
        /\ UNCHANGED <<sched_pc, sched_err>>

\* one iteration of "for ui, text in enumerate(unit_texts)" (lines 915-1063)
SchedUnit ==
    /\ sched_pc = "loop"
    /\ ui < n_units
    /\ \E dur \in UnitDurs, hints \in HintSets, scores \in ScoreRows(clips) :
       \E stt \in {IF unit_times = <<>> THEN 0 ELSE unit_times[Len(unit_times)].en} :
       \E target \in {Max2(MinTarget, dur)} :
       \E all \in {ShotCands(KeyOrder(clips, 1), clips, shot_map, scores, hints)} :
       \E t1 \in {Tier1(all, target, used, out_t, dedup_window_sec)} :
       \E t2 \in {Tier2(all, target)} :
            /\ unit_times' = Append(unit_times, [st |-> stt, en |-> stt + dur])
            /\ IF t1 # <<>> THEN SchedPick(1, t1, target, [st |-> stt, en |-> stt + dur])
               ELSE IF t2 # <<>> THEN SchedPick(2, t2, target, [st |-> stt, en |-> stt + dur])
               ELSE /\ sched_pc' = "failed"
                    /\ sched_err' = Tier3(KeyOrder(clips, 1))
                    /\ cand' = <<>>
                    /\ UNCHANGED <<ui, used, out_t, prev_src, prev_out_src_t, segments, picks>>
    /\ UNCHANGED <<clips, dedup_window_sec, n_units, shot_map, warnings>>

\* "return segments"
SchedReturn ==
    /\ sched_pc = "loop"
    /\ ui = n_units
    /\ sched_pc' = "done"
    /\ UNCHANGED <<clips, dedup_window_sec, n_units, unit_times, ui, shot_map, used, out_t,
                   prev_src, prev_out_src_t, cand, segments, sched_err, warnings, picks>>

----------------------------------------------------------------------------
(* _snap_line_times_to_fps (render_job.py). Frame boundaries are integers;    *)
(* a snapped time is kept as its frame index, the source divides it by fps.   *)

Second == 1000000
DefaultFps == 25
MinFps == 10
MaxFps == 60
CeilPad == 999999

\* fps = int(fps) if int(fps) > 0 else 25; fps = max(10, min(60, fps))
ClampFps(f) == Max2(MinFps, Min2(MaxFps, IF f > 0 THEN f ELSE DefaultFps))

\* the frame count rounded down
TotalFramesFloor(td, f) == Max2(1, (Max2(0, td) * f) \div Second)

\* total_frames = max(1, int(total_dur * fps + 0.999999)) with total_dur >= 0
TotalFrames(td, f) == Max2(1, (Max2(0, td) * f + CeilPad) \div Second)

\* int(round(t * fps)): the nearest integer, a tie to the even one
RoundFrames(t, f) ==
    LET x == t * f
        q == x \div Second
        r == x % Second
    IN  IF 2 * r < Second THEN q
        ELSE IF 2 * r > Second THEN q + 1
        ELSE IF q % 2 = 0 THEN q ELSE q + 1

\* ends clamped to [0, total_dur], the last forced to total_dur
SnapEnds(lt, td) ==
    [i \in 1..Len(lt) |-> IF i = Len(lt) THEN td ELSE Max2(0, Min2(td, lt[i].en))]

\* "Reserve at least 1 frame per remaining unit": the loop of lines 284-287
RECURSIVE ForwardPass(_, _, _, _)
ForwardPass(ef, i, prev, tf) ==
    IF i > Len(ef) THEN <<>>
    ELSE LET min_f == IF i > 1 THEN prev + 1 ELSE 1
             max_f == tf - (Len(ef) - i)
             v == Max2(min_f, Min2(ef[i], max_f))
         IN  <<v>> \o ForwardPass(ef, i + 1, v, tf)

\* end_frames[-1] = total_frames, then the backward loop of lines 289-290
RECURSIVE BackwardPass(_, _, _)
BackwardPass(ef, i, tf) ==
    IF i = Len(ef) THEN BackwardPass([ef EXCEPT ![i] = tf], i - 1, tf)
    ELSE IF i < 1 THEN ef
    ELSE BackwardPass([ef EXCEPT ![i] = Min2(ef[i], ef[i + 1] - 1)], i - 1, tf)

\* end_frames[0] = max(1, min(end_frames[0], total_frames - (n - 1)))
FixFirst(ef, tf) == [ef EXCEPT ![1] = Max2(1, Min2(ef[1], tf - (Len(ef) - 1)))]

\* the end frame of every line
EndFrames(lt, f0, td0) ==
    LET f == ClampFps(f0)
        td == Max2(0, td0)
        tf == TotalFrames(td, f)
        ends == SnapEnds(lt, td)
        raw == [i \in 1..Len(lt) |-> RoundFrames(ends[i], f)]
    IN  FixFirst(BackwardPass(ForwardPass(raw, 1, 0, tf), Len(lt), tf), tf)

\* frames_per = [max(1, e - s)] over start_frames = [0] + end_frames[:-1]
FramesPer(ef) ==
    [i \in 1..Len(ef) |-> Max2(1, ef[i] - (IF i = 1 THEN 0 ELSE ef[i - 1]))]

\* the (start, end) pairs, in frames
Snapped(ef) ==
    [i \in 1..Len(ef) |-> [st |-> IF i = 1 THEN 0 ELSE ef[i - 1], en |-> ef[i]]]

(* Inputs of the snapping specification *)

\* largest number of lines
MaxLines == 3

\* line boundaries: 0, 0.04 s, 0.1 s, 0.3 s
LineTimes == {0, 40000, 100000, 300000}

LineItems == {x \in [st : LineTimes, en : LineTimes] : x.st <= x.en}

\* fps as configured: unset, below the floor, common, above the cap
FpsVals == {0, 5, 25, 100}

\* total_dur: negative, zero, 0.1 s, 0.3 s
VoiceDurs == {0 - 100000, 0, 100000, 300000}

SnapInit ==
    /\ line_times \in SeqsOf(LineItems, 0, MaxLines)
    /\ fps \in FpsVals
    /\ voice_dur \in VoiceDurs
    /\ snap_pc = "start"
    /\ end_frames = <<>>
    /\ snapped = <<>>
    /\ frames_per = <<>>

SnapIdle ==
    /\ line_times = <<>>
    /\ fps = 0
    /\ voice_dur = 0
    /\ snap_pc = "idle"
    /\ end_frames = <<>>
    /\ snapped = <<>>
    /\ frames_per = <<>>

SnapCall ==
    /\ snap_pc = "start"
    /\ snap_pc' = "done"
    /\ end_frames' = IF line_times = <<>> THEN <<>> ELSE EndFrames(line_times, fps, voice_dur)
    /\ snapped' = Snapped(end_frames')
    /\ frames_per' = FramesPer(end_frames')
    /\ UNCHANGED <<line_times, fps, voice_dur>>

----------------------------------------------------------------------------
(* Slicing of the videos in run_index_job (index_job.py): _fixed_slices,      *)
(* _scene_raw_slices, _clamp_slices, _window_clips_from_shots and the loop    *)
(* over the videos. A slice or shot is a record [s, e].                       *)

\* "if se <= ss + 0.2: continue"
TwoTenths == 200000
\* cuts within 0.05 s of either end of the video are ignored
CutMargin == 50000

\* "while t < duration" never ends when t does not advance
FixedHangs(duration, clip_sec) == duration > 0 /\ clip_sec <= 0

RECURSIVE FixedFrom(_, _, _)
FixedFrom(t, duration, clip_sec) ==
    IF t >= duration THEN <<>>
    ELSE LET en == Min2(duration, t + clip_sec)
         IN  (IF en - t >= HalfSec THEN <<[s |-> t, e |-> en]>> ELSE <<>>)
                 \o FixedFrom(en, duration, clip_sec)

\* slices of clip_sec from 0, the last one shorter, pieces under 0.5 s dropped
_fixed_slices(duration, clip_sec) == FixedFrom(0, duration, clip_sec)

\* the boundaries with the detected cuts left out
ScenePtsNoCuts(cs, duration) == {0, Round3(duration)}

\* pts: 0, the cuts strictly inside (0.05, duration - 0.05) and duration,
\* rounded to milliseconds, as a set
ScenePts(cs, duration) ==
    {Round3(x) : x \in {0, duration} \cup {c \in cs : CutMargin < c /\ c < duration - CutMargin}}

\* sorted(...) is SortedSeq; zip(pts, pts[1:]) without the pairs closer than 0.5 s
RECURSIVE PairSlices(_)
PairSlices(pts) ==
    IF Len(pts) < 2 THEN <<>>
    ELSE (IF pts[2] - pts[1] >= HalfSec THEN <<[s |-> pts[1], e |-> pts[2]]>> ELSE <<>>)
             \o PairSlices(Tail(pts))

\* the raw shots between consecutive boundaries
_scene_raw_slices(cs, duration) == PairSlices(SortedSeq(ScenePts(cs, duration)))

RECURSIVE ClampFrom(_, _, _)
ClampFrom(sl, start, en) ==
    IF sl = <<>> THEN <<>>
    ELSE LET s2 == Max2(Head(sl).s, start)
             e2 == Min2(Head(sl).e, en)
         IN  (IF e2 - s2 >= HalfSec THEN <<[s |-> Round3(s2), e |-> Round3(e2)]>> ELSE <<>>)
                 \o ClampFrom(Tail(sl), start, en)

\* every slice cut down to [start, end], those left under 0.5 s dropped
_clamp_slices(sl, start, en) == ClampFrom(sl, Max2(0, start), Max2(Max2(0, start), en))

\* lines 703-705 and 721-723: the head and the tail of the video are skipped
SkipHeadTail(sl, duration, head, tail) ==
    IF head # 0 \/ tail # 0 THEN _clamp_slices(sl, head, Max2(0, duration - tail)) ELSE sl

\* min_sec, max_sec, target_sec as _window_clips_from_shots clamps them
WindowMin(b) == Max2(HalfSec, b.min)
WindowMax(b) == Max2(WindowMin(b), b.max)
WindowTarget(b) == Max2(WindowMin(b), Min2(b.target, WindowMax(b)))

\* a clip record of the slicing step
ClipOf(t, e, sid, ss, se) ==
    [start |-> t, end |-> e, shot_id |-> sid, shot_start |-> ss, shot_end |-> se]

\* windows that never stretch the last one to the end of the shot
RECURSIVE WindowsFromNoExtend(_, _, _, _, _, _)
WindowsFromNoExtend(t, ss, se, sid, mn, tg) ==
    IF t + mn <= se + Eps6
    THEN LET e == Min2(se, t + tg)
         IN  <<ClipOf(t, e, sid, ss, se)>>
                 \o (IF se - e < Milli THEN <<>> ELSE WindowsFromNoExtend(e, ss, se, sid, mn, tg))
    ELSE <<>>

\* "while t + min_sec <= se + 1e-6": windows of target_sec, the last one
\* stretched to the end of the shot when less than min_sec would remain
RECURSIVE WindowsFrom(_, _, _, _, _, _)
WindowsFrom(t, ss, se, sid, mn, tg) ==
    IF t + mn <= se + Eps6
    THEN LET e0 == Min2(se, t + tg)
             e == IF se - e0 < mn THEN se ELSE e0
         IN  <<ClipOf(t, e, sid, ss, se)>>
                 \o (IF se - e < Milli THEN <<>> ELSE WindowsFrom(e, ss, se, sid, mn, tg))
    ELSE <<>>

\* "for ss, se in shots", shot_id counting the shots that are kept
RECURSIVE WindowShots(_, _, _)
WindowShots(sh, sid, b) ==
    IF sh = <<>> THEN <<>>
    ELSE LET ss == Head(sh).s
             se == Head(sh).e
         IN  IF se <= ss + TwoTenths THEN WindowShots(Tail(sh), sid, b)
             ELSE IF se - ss <= WindowMax(b) + Eps6
             THEN <<ClipOf(ss, se, sid, ss, se)>> \o WindowShots(Tail(sh), sid + 1, b)
             ELSE WindowsFrom(ss, ss, se, sid, WindowMin(b), WindowTarget(b))
                      \o WindowShots(Tail(sh), sid + 1, b)

_window_clips_from_shots(sh, b) == WindowShots(sh, 0, b)

\* one clip per slice: "for i, (s, e) in enumerate(shots)"
EnumClips(sh) == [i \in 1..Len(sh) |-> ClipOf(sh[i].s, sh[i].e, i - 1, sh[i].s, sh[i].e)]

\* the record appended to clips_meta for a clip of video v
MetaOf(v, c) ==
    [source_path |-> v, start |-> c.start, end |-> c.end, shot_id |-> c.shot_id,
     shot_start |-> c.shot_start, shot_end |-> c.shot_end]

(* Inputs of the indexing specification *)

\* largest number of videos in a project
MaxVideos == 2

\* durations probed: under 0.5 s, under a second, seven seconds, and ten
\* seconds with a fraction below the millisecond
VideoDurs == {400000, 900000, 7000000, 10000400}

\* cut times as _scene_cut_times returns them, rounded to the millisecond
CutTimes == {30000, 450000, 1000000, 4200000}

\* skip_head, skip_tail: whole seconds
SkipPairs == {<<0, 0>>, <<Second, 0>>, <<0, Second>>, <<Second, 2 * Second>>}

\* (min, target, max): the defaults, a finer grid, max below min, min below 0.5 s
ClipBounds ==
    {[min |-> 3000000, target |-> 4500000, max |-> 6000000],
     [min |-> 1000000, target |-> 2000000, max |-> 3000000],
     [min |-> 3000000, target |-> 4500000, max |-> 2000000],
     [min |-> 100000, target |-> 1000000, max |-> 1000000]}

\* fixed_clip_sec_fallback: the default 4 s, 0.4 s, and 0
FixedClipSecs == {0, 400000, 4000000}

IndexInit ==
    /\ slice_mode \in {"scene", "fixed"}
    /\ \E sk \in SkipPairs : skip_head = sk[1] /\ skip_tail = sk[2]
    /\ clip_bounds \in ClipBounds
    /\ fixed_clip_sec_fallback \in FixedClipSecs
    /\ n_videos \in 1..MaxVideos
    /\ vi = 0
    /\ video_dur = 0
    /\ cuts = {}
    /\ scene_raises = FALSE
    /\ shots = <<>>
    /\ video_clips = <<>>
    /\ clips_meta = <<>>
    /\ index_pc = "video"
    /\ index_log = <<>>

IndexIdle ==
    /\ slice_mode = "fixed"
    /\ skip_head = 0
    /\ skip_tail = 0
    /\ clip_bounds = [min |-> 0, target |-> 0, max |-> 0]
    /\ fixed_clip_sec_fallback = 0
    /\ n_videos = 0
    /\ vi = 0
    /\ video_dur = 0
    /\ cuts = {}
    /\ scene_raises = FALSE
    /\ shots = <<>>
    /\ video_clips = <<>>
    /\ clips_meta = <<>>
    /\ index_pc = "idle"
    /\ index_log = <<>>

\* lines 686-705: probe the duration, detect the scenes (or slice at fixed
\* length, also when detection raises), skip head and tail
IndexShots ==
    /\ index_pc = "video"
    /\ vi < n_videos
    /\ \E d \in VideoDurs :
       \E cs \in (IF slice_mode = "scene" THEN SUBSET CutTimes ELSE {{}}) :
       \E r \in (IF slice_mode = "scene" /\ cs = {} THEN BOOLEAN ELSE {FALSE}) :
            /\ video_dur' = d
            /\ cuts' = cs
            /\ scene_raises' = r
            /\ index_log' = IF r THEN Append(index_log, [video |-> vi + 1, what |-> "scene_failed"])
                            ELSE index_log
            /\ IF slice_mode = "scene" /\ ~r
               THEN /\ shots' = SkipHeadTail(_scene_raw_slices(cs, d), d, skip_head, skip_tail)
                    /\ index_pc' = "shots"
               ELSE IF FixedHangs(d, fixed_clip_sec_fallback)
               THEN index_pc' = "hung" /\ UNCHANGED shots
               ELSE /\ shots' = SkipHeadTail(_fixed_slices(d, fixed_clip_sec_fallback), d,
                                             skip_head, skip_tail)
                    /\ index_pc' = "shots"
    /\ UNCHANGED <<slice_mode, skip_head, skip_tail, clip_bounds, fixed_clip_sec_fallback,
                   n_videos, vi, video_clips, clips_meta>>

\* lines 707-724: the clips inside the shots, and the fixed slices again when
\* there is no clip
IndexClips ==
    /\ index_pc = "shots"
    /\ \E cl \in {IF slice_mode = "scene" THEN _window_clips_from_shots(shots, clip_bounds)
                  ELSE EnumClips(shots)} :
          IF cl # <<>>
          THEN video_clips' = cl /\ index_pc' = "clips" /\ UNCHANGED index_log
          ELSE /\ index_log' = Append(index_log, [video |-> vi + 1, what |-> "empty"])
               /\ IF FixedHangs(video_dur, fixed_clip_sec_fallback)
                  THEN index_pc' = "hung" /\ UNCHANGED video_clips
                  ELSE /\ video_clips' =
                              EnumClips(SkipHeadTail(_fixed_slices(video_dur, fixed_clip_sec_fallback),
                                                     video_dur, skip_head, skip_tail))
                       /\ index_pc' = "clips"
    /\ UNCHANGED <<slice_mode, skip_head, skip_tail, clip_bounds, fixed_clip_sec_fallback,
                   n_videos, vi, video_dur, cuts, scene_raises, shots, clips_meta>>

\* lines 732-770: a record in clips_meta for every clip, then the next video
IndexAppend ==
    /\ index_pc = "clips"
    /\ clips_meta' = clips_meta \o [i \in 1..Len(video_clips) |-> MetaOf(vi + 1, video_clips[i])]
    /\ vi' = vi + 1
    /\ index_pc' = "video"
    /\ UNCHANGED <<slice_mode, skip_head, skip_tail, clip_bounds, fixed_clip_sec_fallback,
                   n_videos, video_dur, cuts, scene_raises, shots, video_clips, index_log>>

\* the loop over the videos is over
IndexDone ==
    /\ index_pc = "video"
    /\ vi = n_videos
    /\ index_pc' = "done"
    /\ UNCHANGED <<slice_mode, skip_head, skip_tail, clip_bounds, fixed_clip_sec_fallback,
                   n_videos, vi, video_dur, cuts, scene_raises, shots, video_clips, clips_meta,
                   index_log>>

----------------------------------------------------------------------------
(* _build_shot_index (render_job.py) record by record, as its loop runs.       *)
(* Indices are 1-based here and in clip_idxs; the source counts from 0.        *)

\* a dict d with d[k] set to v
DictPut(d, k, v) == [x \in DOMAIN d \cup {k} |-> IF x = k THEN v ELSE d[x]]

\* lines 825-832: the entry of the record's key after the record is added
ShotEntry(m, c, i) ==
    LET key == ShotKeyOf(c)
        b == ClipShotBounds(c)
    IN  IF key \notin DOMAIN m
        THEN [source |-> c.source_path, shot_id |-> c.shot_id, start |-> b.ss, end |-> b.se,
              clip_idxs |-> <<i>>]
        ELSE [m[key] EXCEPT !.clip_idxs = Append(@, i),
                            !.start = Min2(@, b.ss),
                            !.end = Max2(@, b.se)]

(* Inputs of the shot index specification *)

\* largest number of records in the index
MaxIndexClips == 3

\* records: three windows of shot A#0 (the third with wider shot bounds), two of
\* A#1 (the first without valid shot bounds), one of B#0, one without source
\* path, one without shot id
IndexPool ==
    {[source_path |-> "A", shot_id |-> 0, shot_start |-> 0, shot_end |-> 4000000,
      start |-> 0, end |-> 2000000],
     [source_path |-> "A", shot_id |-> 0, shot_start |-> 0, shot_end |-> 4000000,
      start |-> 2000000, end |-> 4000000],
     [source_path |-> "A", shot_id |-> 0, shot_start |-> 1000000, shot_end |-> 6000000,
      start |-> 4000000, end |-> 6000000],
     [source_path |-> "A", shot_id |-> 1, shot_start |-> 0, shot_end |-> 0,
      start |-> 6000000, end |-> 8000000],
     [source_path |-> "A", shot_id |-> 1, shot_start |-> 7000000, shot_end |-> 9000000,
      start |-> 8000000, end |-> 9000000],
     [source_path |-> "B", shot_id |-> 0, shot_start |-> 0, shot_end |-> 4000000,
      start |-> 0, end |-> 4000000],
     [source_path |-> "", shot_id |-> 0, shot_start |-> 0, shot_end |-> 4000000,
      start |-> 0, end |-> 4000000],
     [source_path |-> "A", shot_id |-> 0 - 1, shot_start |-> 0, shot_end |-> 4000000,
      start |-> 0, end |-> 4000000]}

BuildInit ==
    /\ index_clips \in SeqsOf(IndexPool, 0, MaxIndexClips)
    /\ build_pc = "loop"
    /\ build_idx = 1
    /\ build_map = <<>>
    /\ ids_by_src = <<>>

BuildIdle ==
    /\ index_clips = <<>>
    /\ build_pc = "idle"
    /\ build_idx = 1
    /\ build_map = <<>>
    /\ ids_by_src = <<>>

\* "if sid < 0 or not src: continue"
BuildSkip ==
    /\ build_pc = "loop"
    /\ build_idx <= Len(index_clips)
    /\ ~ValidClip(index_clips[build_idx])
    /\ build_idx' = build_idx + 1
    /\ UNCHANGED <<index_clips, build_pc, build_map, ids_by_src>>

\* lines 820-833 for a record with a source path and a shot id
BuildAdd ==
    /\ build_pc = "loop"
    /\ build_idx <= Len(index_clips)
    /\ ValidClip(index_clips[build_idx])
    /\ \E c \in {index_clips[build_idx]} :
          /\ build_map' = DictPut(build_map, ShotKeyOf(c), ShotEntry(build_map, c, build_idx))
          /\ ids_by_src' =
                DictPut(ids_by_src, c.source_path,
                        (IF c.source_path \in DOMAIN ids_by_src THEN ids_by_src[c.source_path]
                         ELSE {}) \cup {c.shot_id})
    /\ build_idx' = build_idx + 1
    /\ UNCHANGED <<index_clips, build_pc>>

\* "return shot_map, shot_ids_by_source"
BuildReturn ==
    /\ build_pc = "loop"
    /\ build_idx > Len(index_clips)
    /\ build_pc' = "done"
    /\ UNCHANGED <<index_clips, build_idx, build_map, ids_by_src>>

----------------------------------------------------------------------------
(* run_render_job (render_job.py) from the timing metadata to the rendered     *)
(* segments. An error is the name of the exception that ends the run.         *)

\* dur_delta > 0.50 stops the run, abs(dur_delta) > 5.0 too
MaxMetaAhead == 500000
MaxMetaApart == 5000000

\* a run that goes on whatever was raised
ProceedsAlways(err) == TRUE

\* run_render_job catches nothing: the run goes on only when nothing was raised
Proceeds(err) == err = ""

\* lines 1196-1219: the metadata file is found, parsed, and checked against the
\* duration of the voice track
MetaError(file, ws, vd) ==
    IF file = "missing" THEN "meta_not_found"
    ELSE IF file = "invalid_json" THEN "meta_json"
    ELSE IF file = "no_metadata" THEN "meta_no_list"
    ELSE IF ws = <<>> THEN "meta_no_words"
    ELSE IF ws[Len(ws)].end - vd > MaxMetaAhead THEN "meta_longer_than_audio"
    ELSE IF ws[Len(ws)].end - vd > MaxMetaApart \/ vd - ws[Len(ws)].end > MaxMetaApart
    THEN "meta_far_from_audio"
    ELSE ""

\* lines 1224-1239: the script must have units, the alignment must succeed and
\* give one interval per unit
AlignError(ws, lines, vd) ==
    IF lines = <<>> THEN "script_empty"
    ELSE LET r == align_script_parts_to_words(ws, lines, vd)
         IN  IF r.err # "" THEN r.err
             ELSE IF Len(r.out) # Len(lines) THEN "align_size"
             ELSE ""

\* the errors of parsing the timing metadata and of aligning the script
TimingErrors ==
    {"meta_not_found", "meta_json", "meta_no_list", "meta_no_words", "meta_longer_than_audio",
     "meta_far_from_audio", "script_empty", "missing_words", "empty_words", "empty_part",
     "mismatch", "align_size"}

(* Inputs of the render specification *)

\* what is found at meta_path
MetaFiles == {"ok", "missing", "invalid_json", "no_metadata"}

\* the words of the metadata: the fixed-timing lists, and one word of a second
RenderWordLists ==
    FixedWordLists \cup {<<[text |-> <<"a">>, start |-> 0, end |-> Second]>>}

\* the voice track: as long as two words, a second, nine seconds
ProbedDurs == {80000, Second, 9 * Second}

\* script units are stripped and non-empty (_split_script, _parse_line_markup)
RenderScripts(ws) ==
    {ps \in MatchingScripts(ws) \cup EditedScripts(ws) \cup {<<>>} :
        \A j \in 1..Len(ps) : NonBlank(ps[j])}

RenderInit ==
    /\ meta_file \in MetaFiles
    /\ meta_words \in (IF meta_file = "ok" THEN RenderWordLists ELSE {<<>>})
    /\ probed_dur \in ProbedDurs
    /\ script_lines \in RenderScripts(meta_words)
    /\ render_pc = "meta"
    /\ render_err = ""
    /\ frames_per_line = <<>>
    /\ sched_called = FALSE
    /\ n_segments = 0
    /\ edl_written = FALSE
    /\ seg_paths = 0

RenderIdle ==
    /\ meta_file = "missing"
    /\ meta_words = <<>>
    /\ probed_dur = 0
    /\ script_lines = <<>>
    /\ render_pc = "idle"
    /\ render_err = ""
    /\ frames_per_line = <<>>
    /\ sched_called = FALSE
    /\ n_segments = 0
    /\ edl_written = FALSE
    /\ seg_paths = 0

\* lines 1196-1219
RenderLoadMeta ==
    /\ render_pc = "meta"
    /\ render_err' = MetaError(meta_file, meta_words, probed_dur)
    /\ render_pc' = IF Proceeds(render_err') THEN "align" ELSE "failed"
    /\ UNCHANGED <<meta_file, meta_words, probed_dur, script_lines, frames_per_line,
                   sched_called, n_segments, edl_written, seg_paths>>

\* lines 1224-1244: split the script, align it, snap the times to frames
RenderAlign ==
    /\ render_pc = "align"
    /\ render_err' = AlignError(meta_words, script_lines, probed_dur)
    /\ IF Proceeds(render_err')
       THEN /\ render_pc' = "match"
            /\ frames_per_line' =
                  FramesPer(EndFrames(align_script_parts_to_words(meta_words, script_lines,
                                                                  probed_dur).out,
                                      DefaultFps, probed_dur))
       ELSE render_pc' = "failed" /\ UNCHANGED frames_per_line
    /\ UNCHANGED <<meta_file, meta_words, probed_dur, script_lines, sched_called, n_segments,
                   edl_written, seg_paths>>

\* lines 1281-1294: the scheduler returns one segment per unit or raises
RenderSchedule ==
    /\ render_pc = "match"
    /\ sched_called' = TRUE
    /\ \E raised \in BOOLEAN :
          /\ render_err' = IF raised THEN "schedule" ELSE ""
          /\ IF Proceeds(render_err')
             THEN render_pc' = "edl" /\ n_segments' = Len(script_lines)
             ELSE render_pc' = "failed" /\ UNCHANGED n_segments
    /\ UNCHANGED <<meta_file, meta_words, probed_dur, script_lines, frames_per_line,
                   edl_written, seg_paths>>

\* lines 1296-1314: edl.json with the lines and the segments
RenderWriteEdl ==
    /\ render_pc = "edl"
    /\ edl_written' = TRUE
    /\ render_pc' = "render"
    /\ UNCHANGED <<meta_file, meta_words, probed_dur, script_lines, render_err,
                   frames_per_line, sched_called, n_segments, seg_paths>>

\* lines 1381-1398: one segment rendered, or ffmpeg fails
RenderSegment ==
    /\ render_pc = "render"
    /\ seg_paths < n_segments
    /\ \E raised \in BOOLEAN :
          /\ render_err' = IF raised THEN "ffmpeg" ELSE ""
          /\ IF Proceeds(render_err')
             THEN seg_paths' = seg_paths + 1 /\ UNCHANGED render_pc
             ELSE render_pc' = "failed" /\ UNCHANGED seg_paths
    /\ UNCHANGED <<meta_file, meta_words, probed_dur, script_lines, frames_per_line,
                   sched_called, n_segments, edl_written>>

\* every segment is rendered: the run goes on to join them
RenderJoin ==
    /\ render_pc = "render"
    /\ seg_paths = n_segments
    /\ render_pc' = "done"
    /\ UNCHANGED <<meta_file, meta_words, probed_dur, script_lines, render_err,
                   frames_per_line, sched_called, n_segments, edl_written, seg_paths>>

----------------------------------------------------------------------------
(* _split_script (render_job.py) *)

\* "nl" is the newline, "cr" the carriage return, "lq" and "rq" the Chinese
\* opening and closing double quotes, "dq" the ASCII double quote; "," stands
\* for every split mark that is no dash, "-" for the four dashes
split_chars == {",", "-"}
dash_chars == {"-"}
\* what str.strip() removes
WhiteChars == {" ", "nl", "cr"}

RECURSIVE LStrip(_)
LStrip(s) == IF s # <<>> /\ Head(s) \in WhiteChars THEN LStrip(Tail(s)) ELSE s

RECURSIVE RStrip(_)
RStrip(s) ==
    IF s # <<>> /\ s[Len(s)] \in WhiteChars THEN RStrip(SubSeq(s, 1, Len(s) - 1)) ELSE s

\* str.strip()
PyStrip(s) == RStrip(LStrip(s))

\* flush(): s = "".join(buf).strip(); buf.clear(); if s: out.append(s)
Flush(st) ==
    [out |-> IF PyStrip(st.buf) # <<>> THEN Append(st.out, PyStrip(st.buf)) ELSE st.out,
     buf |-> <<>>,
     in_quote |-> st.in_quote]

\* no quote tracking at all
QuoteNever(in_quote, ch) == FALSE

\* the in_quote flag after ch: the opening quote sets it, the closing quote
\* clears it, the ASCII quote toggles it
QuoteAfter(in_quote, ch) ==
    IF ch = "lq" THEN TRUE
    ELSE IF ch = "rq" THEN FALSE
    ELSE IF ch = "dq" THEN ~in_quote
    ELSE in_quote

\* one round of "for i, ch in enumerate(raw)" (i is 1-based here)
ScanStep(st, raw, i) ==
    LET ch == raw[i]
        st1 == [out |-> st.out, buf |-> Append(st.buf, ch),
                in_quote |-> QuoteAfter(st.in_quote, ch)]
    IN  IF ch = "cr" THEN st
        ELSE IF ch = "nl" THEN Flush(st)
        ELSE IF st1.in_quote THEN st1
        ELSE IF ch \in split_chars
             THEN IF ch \in dash_chars /\ i + 1 <= Len(raw) /\ raw[i + 1] \in dash_chars
                  THEN st1
                  ELSE Flush(st1)
        ELSE st1

RECURSIVE ScanLoop(_, _, _)
ScanLoop(st, raw, i) ==
    IF i > Len(raw) THEN st ELSE ScanLoop(ScanStep(st, raw, i), raw, i + 1)

\* re.sub(r"[split marks]+$", "", t)
RECURSIVE DropTrailingSplit(_)
DropTrailingSplit(t) ==
    IF t # <<>> /\ t[Len(t)] \in split_chars
    THEN DropTrailingSplit(SubSeq(t, 1, Len(t) - 1))
    ELSE t

\* _is_quoted_only
_is_quoted_only(s) ==
    LET t == PyStrip(s)
        t2 == PyStrip(DropTrailingSplit(t))
    IN  IF t = <<>> \/ t2 = <<>> THEN FALSE
        ELSE IF t2[1] = "lq" /\ (\E k \in 1..Len(t2) : t2[k] = "rq")
             THEN t2[Len(t2)] = "rq"
        ELSE /\ t2[1] = "dq"
             /\ Cardinality({k \in 1..Len(t2) : t2[k] = "dq"}) >= 2
             /\ t2[Len(t2)] = "dq"

\* the merge pass: a quoted-only unit joins the unit before it
RECURSIVE MergeQuoted(_, _)
MergeQuoted(merged, out) ==
    IF out = <<>> THEN merged
    ELSE IF merged # <<>> /\ _is_quoted_only(Head(out))
         THEN MergeQuoted([merged EXCEPT ![Len(merged)] = RStrip(@) \o Head(out)],
                          Tail(out))
         ELSE MergeQuoted(Append(merged, Head(out)), Tail(out))

_split_script(raw) ==
    IF PyStrip(raw) = <<>> THEN <<>>
    ELSE MergeQuoted(<<>>,
             Flush(ScanLoop([out |-> <<>>, buf |-> <<>>, in_quote |-> FALSE], raw, 1)).out)

(* Inputs of the script specification *)

\* longest script text, in characters
MaxScriptLen == 5

ScriptChars == {"a", ",", "-", " ", "nl", "cr", "lq", "rq", "dq"}

ScriptInit ==
    /\ script_text \in SeqsOf(ScriptChars, 0, MaxScriptLen)
    /\ script_pc = "ready"
    /\ script_units = <<>>

ScriptIdle ==
    /\ script_text = <<>>
    /\ script_pc = "idle"
    /\ script_units = <<>>

\* raw_lines = _split_script(req.script_text)
ScriptCall ==
    /\ script_pc = "ready"
    /\ script_units' = _split_script(script_text)
    /\ script_pc' = "done"
    /\ UNCHANGED script_text

----------------------------------------------------------------------------
(* _partition_words_by_part_weights (edgetts_meta.py) *)

\* the floor of an expected duration, "max(0.25, exp[i - 1])"; the word times of
\* this component are whole multiples of it, and the scores are computed on
\* times counted in this unit
QuarterSec == 250000

\* ws = [max(1, int(w)) for w in part_weights]
ClampWeights(pw) == [i \in 1..Len(pw) |-> Max2(1, pw[i])]

\* sum(ws[i:]) for the 1-based i
RECURSIVE SumFrom(_, _)
SumFrom(ws, i) == IF i > Len(ws) THEN 0 ELSE ws[i] + SumFrom(ws, i + 1)

AbsVal(x) == IF x < 0 THEN 0 - x ELSE x

\* ed = max(0.25, exp[i - 1]) with exp[i - 1] = total_dur * ws[i - 1] / sw,
\* multiplied by sw and counted in quarter seconds
ExpDur(ws, td, i) == Max2(SumFrom(ws, 1), (td \div QuarterSec) * ws[i])

\* the product of the expected durations of the groups 1..i: the common
\* denominator of the penalties summed over i groups
RECURSIVE PenDen(_, _, _)
PenDen(ws, td, i) == IF i = 0 THEN 1 ELSE PenDen(ws, td, i - 1) * ExpDur(ws, td, i)

\* dur = en[j - 1] - st[a], multiplied by sw and counted in quarter seconds
GroupDur(wl, ws, a, j) == ((wl[j].end - wl[a + 1].start) \div QuarterSec) * SumFrom(ws, 1)

\* dp[0] = 0.0 and neg elsewhere: a row holds, for j = 0..n at position j + 1,
\* whether dp[j] is a real score, the sum of the dur_pen terms behind it (the
\* score is -0.75 times that sum) over PenDen, and bp[i][j]
FirstRow(n) == [p \in 1..(n + 1) |-> [ok |-> p = 1, pen |-> 0, bp |-> IF p = 1 THEN 0 ELSE 0 - 1]]

\* the sum of penalties of the split that ends group i at j and starts it at a
PenVia(prev, wl, ws, td, i, a, j) ==
    prev[a + 1].pen * ExpDur(ws, td, i)
        + AbsVal(GroupDur(wl, ws, a, j) - ExpDur(ws, td, i)) * PenDen(ws, td, i - 1)

\* the starts a in range(i - 1, j) that are not skipped
Starts(prev, wl, ws, i, j) ==
    {a \in (i - 1)..(j - 1) : prev[a + 1].ok /\ GroupDur(wl, ws, a, j) > 0}

\* "if val > best": the first a of the best score wins
BestStart(prev, wl, ws, td, i, j) ==
    LET A == Starts(prev, wl, ws, i, j)
    IN  CHOOSE a \in A :
            \A b \in A :
                \/ PenVia(prev, wl, ws, td, i, a, j) < PenVia(prev, wl, ws, td, i, b, j)
                \/ PenVia(prev, wl, ws, td, i, a, j) = PenVia(prev, wl, ws, td, i, b, j)
                      /\ a <= b

\* ndp and bp[i] after the round i of the DP
NextRow(prev, wl, ws, td, i) ==
    [p \in 1..(Len(wl) + 1) |->
        IF p - 1 < i \/ Starts(prev, wl, ws, i, p - 1) = {}
        THEN [ok |-> FALSE, pen |-> 0, bp |-> 0 - 1]
        ELSE LET a == BestStart(prev, wl, ws, td, i, p - 1)
             IN  [ok |-> TRUE, pen |-> PenVia(prev, wl, ws, td, i, a, p - 1), bp |-> a]]

\* the rows 1..i, the latest last
RECURSIVE DpRows(_, _, _, _)
DpRows(wl, ws, td, i) ==
    IF i = 0 THEN <<>>
    ELSE LET rows == DpRows(wl, ws, td, i - 1)
             prev == IF i = 1 THEN FirstRow(Len(wl)) ELSE rows[i - 1]
         IN  Append(rows, NextRow(prev, wl, ws, td, i))

\* round(x) of the quotient num / den, halves to the even integer
RoundHalfEven(num, den) ==
    LET q == num \div den
        r == num % den
    IN  IF 2 * r < den THEN q
        ELSE IF 2 * r > den THEN q + 1
        ELSE IF q % 2 = 0 THEN q ELSE q + 1

\* a group that takes its share whatever is left for the later ones
TakeEndGreedy(n, k, i, a, take) == a + take

\* b = min(n - (k - i - 1), a + take), for the 0-based i
TakeEnd(n, k, i, a, take) == Min2(n - (k - i - 1), a + take)

\* "fallback: greedy by weights", from group i (0-based) and word a
RECURSIVE Greedy(_, _, _, _)
Greedy(ws, n, i, a) ==
    LET k == Len(ws) IN
    IF i >= k - 1 THEN <<[a |-> a, b |-> n]>>
    ELSE LET take == Max2(1, RoundHalfEven((n - a) * ws[i + 1], SumFrom(ws, i + 1)))
             b == TakeEnd(n, k, i, a, take)
         IN  <<[a |-> a, b |-> b]>> \o Greedy(ws, n, i + 1, b)

\* bounds[i - 1] = bp[i][j] walking back from j = n
RECURSIVE BackBounds(_, _, _)
BackBounds(rows, i, j) ==
    IF i = 0 THEN <<>>
    ELSE LET a == rows[i][j + 1].bp
         IN  Append(BackBounds(rows, i - 1, a), [a |-> a, b |-> j])

\* the DP found no split of all n words into k groups
NeedsFallback(wl, ws, td) == DpRows(wl, ws, td, Len(ws))[Len(ws)][Len(wl) + 1].bp < 0

_partition_words_by_part_weights(wl, pw, td) ==
    LET n == Len(wl)
        k == Len(pw)
        ws == ClampWeights(pw)
    IN  IF k <= 0 \/ n <= 0 THEN <<>>
        ELSE IF k >= n THEN [i \in 1..n |-> [a |-> i - 1, b |-> i]]
        ELSE IF NeedsFallback(wl, ws, td) THEN Greedy(ws, n, 0, 0)
        ELSE BackBounds(DpRows(wl, ws, td, k), k, n)

(* Inputs of the partition specification *)

\* most words of a sentence, most script parts
MaxPartWords == 3
MaxWeights == 3

\* word times: an instant, a quarter second and a half second after it; any
\* order of them, repeats included, is a word list
PartWordItems ==
    {[start |-> 0, end |-> 0],
     [start |-> 0, end |-> QuarterSec],
     [start |-> QuarterSec, end |-> 3 * QuarterSec]}

PartWeights == {0, 1, 9}

PartTotals == {0, 2 * QuarterSec, 8 * QuarterSec}

PartInit ==
    /\ pw_words \in SeqsOf(PartWordItems, 0, MaxPartWords)
    /\ part_weights \in SeqsOf(PartWeights, 0, MaxWeights)
    /\ pw_total \in PartTotals
    /\ pw_pc = "ready"
    /\ groups = <<>>

PartIdle ==
    /\ pw_words = <<>>
    /\ part_weights = <<>>
    /\ pw_total = 0
    /\ pw_pc = "idle"
    /\ groups = <<>>

\* groups = _partition_words_by_part_weights(local, part_weights, total_dur=...)
PartCall ==
    /\ pw_pc = "ready"
    /\ groups' = _partition_words_by_part_weights(pw_words, part_weights, pw_total)
    /\ pw_pc' = "done"
    /\ UNCHANGED <<pw_words, part_weights, pw_total>>

----------------------------------------------------------------------------
(* The caption pipeline of run_index_job (index_job.py) *)

\* the caption of a frame is "" (none yet), a text, or a failure marker
Markers == <<"__FAILED__:1", "__FAILED__:2", "__FAILED__:3">>

IsFailed(v) == \E i \in 1..Len(Markers) : Markers[i] = v

\* _is_missing_caption
_is_missing_caption(v) == v = "" \/ IsFailed(v)

\* rel_keys of the clip c: the cache keys of its two frames
RelKeys(c) == <<<<c, 1>>, <<c, 2>>>>

\* _mark_failed: "__FAILED__:{n+1}", n the count of the marker already there
_mark_failed(caps, key) ==
    LET n == IF IsFailed(caps[key])
             THEN CHOOSE i \in 1..Len(Markers) : Markers[i] = caps[key]
             ELSE 0
    IN  [caps EXCEPT ![key] = Markers[n + 1]]

RECURSIVE MarkAll(_, _)
MarkAll(caps, keys) ==
    IF keys = <<>> THEN caps ELSE MarkAll(_mark_failed(caps, Head(keys)), Tail(keys))

\* captions[k] = cap_text for every key of the list
RECURSIVE FillAll(_, _, _)
FillAll(caps, keys, txt) ==
    IF keys = <<>> THEN caps ELSE FillAll([caps EXCEPT ![Head(keys)] = txt], Tail(keys), txt)

\* _merge_caps: the distinct non-empty captions in order (joined with " ; ")
RECURSIVE _merge_caps(_)
_merge_caps(cs) ==
    IF cs = <<>> THEN <<>>
    ELSE LET rest == _merge_caps(SubSeq(cs, 1, Len(cs) - 1))
             c == cs[Len(cs)]
         IN  IF c = "" \/ (\E i \in 1..Len(rest) : rest[i] = c) THEN rest
             ELSE Append(rest, c)

\* clip_text = _merge_caps([captions.get(k, "") for k in rel_keys])
ClipText(caps, c) == _merge_caps([i \in 1..Len(RelKeys(c)) |-> caps[RelKeys(c)[i]]])

RECURSIVE SetTexts(_, _, _)
SetTexts(texts, caps, items) ==
    IF items = <<>> THEN texts
    ELSE SetTexts([texts EXCEPT ![Head(items)] = ClipText(caps, Head(items))], caps,
                  Tail(items))

\* all rel_keys of the items of a batch
RECURSIVE ItemKeys(_)
ItemKeys(items) == IF items = <<>> THEN <<>> ELSE RelKeys(Head(items)) \o ItemKeys(Tail(items))

\* the body of "for fut in done" for one future: s holds captions, failed,
\* clip_texts and whether a RuntimeError was raised
DrainOne(s, info) ==
    IF info.st = "fail"
    THEN [s EXCEPT !.captions = MarkAll(@, IF info.keys # <<>> THEN info.keys
                                            ELSE ItemKeys(info.items)),
                   !.failed = @ \o info.items]
    ELSE IF info.st = "short" THEN [s EXCEPT !.raised = TRUE]
    ELSE LET caps == FillAll(s.captions,
                             IF info.mode = "clips" THEN ItemKeys(info.items) ELSE info.keys,
                             "cap")
         IN  [s EXCEPT !.captions = caps, !.clip_texts = SetTexts(@, caps, info.items)]

RECURSIVE DrainAll(_, _)
DrainAll(s, done) ==
    IF done = {} \/ s.raised THEN s
    ELSE LET f == CHOOSE x \in done : \A y \in done : x.id <= y.id
         IN  DrainAll(DrainOne(s, f), done \ {f})

\* the futures that wait() reports
DoneFutures(pend) == {f \in pend : f.st # "running"}

\* _drain_some
_drain_some(pend, caps, fl, texts) ==
    DrainAll([captions |-> caps, failed |-> fl, clip_texts |-> texts, raised |-> FALSE],
             DoneFutures(pend))

\* no limit on the requests in flight
MustWaitNever(pend, limit) == FALSE

\* "while len(pending) >= cap_in_flight"
MustWait(pend, limit) == Cardinality(pend) >= limit

\* cap_in_flight = max(1, min(32, cap_in_flight))
ClampInFlight(x) == Max2(1, Min2(32, x))

\* cap_batch_clips = max(1, min(20, cap_batch_clips))
ClampBatchClips(x) == Max2(1, Min2(20, x))

(* Inputs of the caption specification *)

\* most clips of the video
MaxCapClips == 2

\* caption_in_flight and caption_batch_clips as requested
InFlightVals == {0, 1, 2, 40}
BatchClipVals == {1, 2}

\* the cached captions of a clip's two frames when the job starts
CachePatterns == {<<"", "">>, <<"cap", "">>, <<"cap", "cap">>, <<"__FAILED__:1", "cap">>}

CapInit ==
    /\ cap_is_null \in BOOLEAN
    /\ use_groups \in BOOLEAN
    /\ \E x \in InFlightVals : cap_in_flight = ClampInFlight(x)
    /\ \E x \in BatchClipVals : cap_batch_clips = ClampBatchClips(x)
    /\ cap_n \in 1..MaxCapClips
    /\ \E pat \in [1..cap_n -> CachePatterns] :
          captions = [k \in (1..cap_n) \X {1, 2} |-> pat[k[1]][k[2]]]
    /\ cap_si = 0
    /\ batch_items = <<>>
    /\ batch_keys = <<>>
    /\ pending = {}
    /\ next_fut = 1
    /\ failed = <<>>
    /\ clip_texts = <<>>
    /\ cap_ri = 1
    /\ cap_pc = "clips"
    /\ cap_ret = "clips"

CapIdle ==
    /\ cap_is_null = FALSE
    /\ use_groups = FALSE
    /\ cap_in_flight = 0
    /\ cap_batch_clips = 0
    /\ cap_n = 0
    /\ captions = <<>>
    /\ cap_si = 0
    /\ batch_items = <<>>
    /\ batch_keys = <<>>
    /\ pending = {}
    /\ next_fut = 0
    /\ failed = <<>>
    /\ clip_texts = <<>>
    /\ cap_ri = 0
    /\ cap_pc = "idle"
    /\ cap_ret = "idle"

\* a worker thread of the executor finishes a request: captions for every
\* image, an exception, or a list of the wrong length
CapFutureDone ==
    /\ \E f \in pending, r \in {"ok", "fail", "short"} :
          /\ f.st = "running"
          /\ pending' = (pending \ {f}) \cup {[f EXCEPT !.st = r]}
    /\ UNCHANGED <<cap_is_null, use_groups, cap_in_flight, cap_batch_clips, cap_n, captions,
                   cap_si, batch_items, batch_keys, next_fut, failed, clip_texts, cap_ri,
                   cap_pc, cap_ret>>

\* the main thread is in a blocking "_drain_some(executor, block=True)"
CapBlocked ==
    \/ cap_pc = "clips" /\ cap_si < cap_n /\ MustWait(pending, cap_in_flight)
    \/ cap_pc = "submit" /\ MustWait(pending, cap_in_flight)
    \/ cap_pc = "drain" /\ pending # {}

\* _drain_some(executor, block=True) returns once a request has finished
CapWait ==
    /\ CapBlocked
    /\ DoneFutures(pending) # {}
    /\ \E s \in {_drain_some(pending, captions, failed, clip_texts)} :
          /\ captions' = s.captions
          /\ failed' = s.failed
          /\ clip_texts' = s.clip_texts
          /\ cap_pc' = IF s.raised THEN "raised" ELSE cap_pc
    /\ pending' = pending \ DoneFutures(pending)
    /\ UNCHANGED <<cap_is_null, use_groups, cap_in_flight, cap_batch_clips, cap_n, cap_si,
                   batch_items, batch_keys, next_fut, cap_ri, cap_ret>>

\* one round of "for si, cinfo in enumerate(clips)" from the non-blocking
\* drain to the flush decision of _submit_caption_batch(force=False)
CapClip ==
    /\ cap_pc = "clips"
    /\ cap_si < cap_n
    /\ ~MustWait(pending, cap_in_flight)
    /\ \E s \in {_drain_some(pending, captions, failed, clip_texts)} :
       \E c \in {cap_si + 1} :
       \E missing \in {SelectSeq(RelKeys(c), LAMBDA k : _is_missing_caption(s.captions[k]))} :
          /\ pending' = pending \ DoneFutures(pending)
          /\ captions' = s.captions
          /\ failed' = s.failed
          /\ IF s.raised
             THEN /\ cap_pc' = "raised"
                  /\ clip_texts' = s.clip_texts
                  /\ UNCHANGED <<cap_si, batch_items, batch_keys, cap_ret>>
             ELSE /\ cap_si' = cap_si + 1
                  /\ IF cap_is_null
                     THEN /\ clip_texts' = Append(s.clip_texts, <<>>)
                          /\ UNCHANGED <<batch_items, batch_keys, cap_pc, cap_ret>>
                     ELSE IF missing # <<>>
                     THEN /\ clip_texts' = Append(s.clip_texts, <<>>)
                          /\ batch_items' = Append(batch_items, c)
                          /\ batch_keys' = batch_keys \o missing
                          /\ IF Len(batch_items) + 1 < cap_batch_clips
                             THEN UNCHANGED <<cap_pc, cap_ret>>
                             ELSE cap_pc' = "submit" /\ cap_ret' = "clips"
                     ELSE /\ clip_texts' = Append(s.clip_texts, ClipText(s.captions, c))
                          /\ UNCHANGED <<batch_items, batch_keys, cap_pc, cap_ret>>
    /\ UNCHANGED <<cap_is_null, use_groups, cap_in_flight, cap_batch_clips, cap_n, next_fut,
                   cap_ri>>

\* the rest of _submit_caption_batch: executor.submit(...), pending[fut] = ...
CapSubmit ==
    /\ cap_pc = "submit"
    /\ ~MustWait(pending, cap_in_flight)
    /\ pending' = pending \cup
            {[id |-> next_fut, items |-> batch_items,
              keys |-> IF use_groups THEN <<>> ELSE batch_keys,
              mode |-> IF use_groups THEN "clips" ELSE "frames", st |-> "running"]}
    /\ next_fut' = next_fut + 1
    /\ batch_items' = <<>>
    /\ batch_keys' = <<>>
    /\ cap_pc' = cap_ret
    /\ UNCHANGED <<cap_is_null, use_groups, cap_in_flight, cap_batch_clips, cap_n, captions,
                   cap_si, failed, clip_texts, cap_ri, cap_ret>>

\* after the last clip: _submit_caption_batch(force=True), then on to the
\* "while pending" loop
CapEndVideo ==
    /\ cap_pc = "clips"
    /\ cap_si = cap_n
    /\ IF cap_is_null \/ batch_items = <<>>
       THEN cap_pc' = "drain" /\ UNCHANGED cap_ret
       ELSE cap_pc' = "submit" /\ cap_ret' = "drain"
    /\ batch_items' = IF cap_is_null THEN <<>> ELSE batch_items
    /\ batch_keys' = IF cap_is_null THEN <<>> ELSE batch_keys
    /\ UNCHANGED <<cap_is_null, use_groups, cap_in_flight, cap_batch_clips, cap_n, captions,
                   cap_si, pending, next_fut, failed, clip_texts, cap_ri>>

\* "while pending" has ended: on to the make-up pass, if there is one
CapDrained ==
    /\ cap_pc = "drain"
    /\ pending = {}
    /\ cap_pc' = IF ~cap_is_null /\ failed # <<>> THEN "retry" ELSE "done"
    /\ UNCHANGED <<cap_is_null, use_groups, cap_in_flight, cap_batch_clips, cap_n, captions,
                   cap_si, batch_items, batch_keys, pending, next_fut, failed, clip_texts,
                   cap_ri, cap_ret>>

\* one round of the make-up pass: the frames still missing are requested
\* again, in this thread; whatever the outcome the clip text is set anew
CapRetry ==
    /\ cap_pc = "retry"
    /\ cap_ri <= Len(failed)
    /\ \E c \in {failed[cap_ri]} :
       \E still \in {SelectSeq(RelKeys(c), LAMBDA k : _is_missing_caption(captions[k]))} :
          IF still = <<>>
          THEN UNCHANGED <<captions, clip_texts>>
          ELSE \E r \in {"ok", "fail", "short"} :
               \E caps \in {IF r = "ok" THEN FillAll(captions, still, "cap") ELSE captions} :
                  /\ captions' = caps
                  /\ clip_texts' = [clip_texts EXCEPT ![c] = ClipText(caps, c)]
    /\ cap_ri' = cap_ri + 1
    /\ UNCHANGED <<cap_is_null, use_groups, cap_in_flight, cap_batch_clips, cap_n, cap_si,
                   batch_items, batch_keys, pending, next_fut, failed, cap_pc, cap_ret>>

\* the make-up pass is over: the clip texts go to the embedding
CapFinish ==
    /\ cap_pc = "retry"
    /\ cap_ri > Len(failed)
    /\ cap_pc' = "done"
    /\ UNCHANGED <<cap_is_null, use_groups, cap_in_flight, cap_batch_clips, cap_n, captions,
                   cap_si, batch_items, batch_keys, pending, next_fut, failed, clip_texts,
                   cap_ri, cap_ret>>

----------------------------------------------------------------------------
(* JobState and JobManager (job_manager.py), wait_if_paused and check_cancel
   (util.py): the worker thread of one job, the API calls on it and the event
   subscribers *)

_MAX_EVENTS_PER_JOB == 5000

TerminalStatus == {"canceled", "failed", "succeeded"}

NoEvent == [id |-> 0, type |-> "", status |-> ""]

\* an emit between its locked part and its puts: the event and list(_subscribers)
NoSend == [ev |-> NoEvent, subs |-> {}]

\* the subscribers in job._subscribers
Subscribed(sb) == {s \in DOMAIN sb : sb[s].st = "active"}

\* self._events.append(event), cut to the last _MAX_EVENTS_PER_JOB
Appended(evs, ev) ==
    IF Len(evs) + 1 > _MAX_EVENTS_PER_JOB
    THEN SubSeq(evs, Len(evs) + 2 - _MAX_EVENTS_PER_JOB, Len(evs)) \o <<ev>>
    ELSE Append(evs, ev)

\* for q in subs: q.put_nowait(event)
Delivered(sb, send) ==
    [s \in DOMAIN sb |->
        IF s \in send.subs THEN [sb[s] EXCEPT !.queue = Append(@, send.ev)] ELSE sb[s]]

\* a subscriber that is handed no history
HistoryNone(evs) == <<>>

\* history = list(self._events)
HistoryCopy(evs) == evs

\* the guard of pause, resume and cancel on the status they read
CallPasses(op, st) ==
    IF op = "cancel" THEN st \notin TerminalStatus ELSE st \in {"running", "paused"}

\* the status a passing call writes
CallStatus(op) ==
    IF op = "pause" THEN "paused" ELSE IF op = "resume" THEN "running" ELSE "canceling"

(* Inputs of the job specification *)

\* most polling points of a job, most API calls on it, most subscribers
MaxPolls == 1
MaxCalls == 2
MaxSubs == 1

JobInit ==
    /\ status = "queued"
    /\ pause_evt = FALSE
    /\ cancel_evt = FALSE
    /\ events = <<>>
    /\ emitted = 0
    /\ subscribers = [s \in 1..MaxSubs |-> [st |-> "none", history |-> <<>>, queue |-> <<>>]]
    /\ wpc = "queued"
    /\ polls_left \in 1..MaxPolls
    /\ w_exc = ""
    /\ w_outcome = ""
    /\ w_send = NoSend
    /\ w_after = ""
    /\ term_at = None
    /\ calls = [c \in 1..MaxCalls |-> [op |-> "none", pc |-> "idle", send |-> NoSend]]

JobIdle ==
    /\ status = ""
    /\ pause_evt = FALSE
    /\ cancel_evt = FALSE
    /\ events = <<>>
    /\ emitted = 0
    /\ subscribers = <<>>
    /\ wpc = "idle"
    /\ polls_left = 0
    /\ w_exc = ""
    /\ w_outcome = ""
    /\ w_send = NoSend
    /\ w_after = ""
    /\ term_at = None
    /\ calls = <<>>

\* _run: job.status = "running"
WStart ==
    /\ wpc = "queued"
    /\ status' = "running"
    /\ wpc' = "emit_running"
    /\ UNCHANGED <<pause_evt, cancel_evt, events, emitted, subscribers, polls_left, w_exc,
                   w_outcome, w_send, w_after, term_at, calls>>

\* the locked part of an emit of the worker thread: the "state" event of the
\* start, a "progress" event of the job, the "error" and the "done" event of the
\* end, each "status" read from job.status at that moment; with no subscriber
\* there is no put to wait for
WEmit ==
    /\ wpc \in {"emit_running", "emit_progress", "emit_error", "emit_done"}
    /\ \E ev \in {[id |-> emitted + 1,
                   type |-> IF wpc = "emit_running" THEN "state"
                            ELSE IF wpc = "emit_progress" THEN "progress"
                            ELSE IF wpc = "emit_error" THEN "error" ELSE "done",
                   status |-> IF wpc \in {"emit_running", "emit_done"} THEN status ELSE ""]} :
       \E after \in {IF wpc = "emit_running" THEN "wait"
                      ELSE IF wpc = "emit_progress"
                           THEN IF polls_left = 0 THEN "return" ELSE "wait"
                      ELSE IF wpc = "emit_error" THEN "emit_done" ELSE "exited"} :
          /\ events' = Appended(events, ev)
          /\ IF Subscribed(subscribers) = {}
             THEN wpc' = after /\ UNCHANGED <<w_send, w_after>>
             ELSE /\ w_send' = [ev |-> ev, subs |-> Subscribed(subscribers)]
                  /\ w_after' = after
                  /\ wpc' = "deliver"
    /\ emitted' = emitted + 1
    /\ UNCHANGED <<status, pause_evt, cancel_evt, subscribers, polls_left, w_exc, w_outcome,
                   term_at, calls>>

\* the puts of that emit
WDeliver ==
    /\ wpc = "deliver"
    /\ subscribers' = Delivered(subscribers, w_send)
    /\ w_send' = NoSend
    /\ wpc' = w_after
    /\ UNCHANGED <<status, pause_evt, cancel_evt, events, emitted, polls_left, w_exc,
                   w_outcome, w_after, term_at, calls>>

\* a pause wait that only the end of the pause ends
WaitEndsUnpaused(paused, cancelled) == ~paused

\* wait_if_paused goes on sleeping while the pause is set and the cancel is not
WaitEnds(paused, cancelled) == paused => cancelled

\* wait_if_paused: leaves when the pause is over, raises when paused and
\* cancelled, sleeps and looks again otherwise
WWait ==
    /\ wpc = "wait"
    /\ WaitEnds(pause_evt, cancel_evt)
    /\ IF pause_evt
       THEN wpc' = "except" /\ w_exc' = "cancelled"
       ELSE wpc' = "check" /\ UNCHANGED w_exc
    /\ UNCHANGED <<status, pause_evt, cancel_evt, events, emitted, subscribers, polls_left,
                   w_outcome, w_send, w_after, term_at, calls>>

\* check_cancel
WCheck ==
    /\ wpc = "check"
    /\ IF cancel_evt
       THEN wpc' = "except" /\ w_exc' = "cancelled"
       ELSE wpc' = "work" /\ UNCHANGED w_exc
    /\ UNCHANGED <<status, pause_evt, cancel_evt, events, emitted, subscribers, polls_left,
                   w_outcome, w_send, w_after, term_at, calls>>

\* the work of the job up to its next polling point: it reports progress, or
\* raises an error of its own
WWork ==
    /\ wpc = "work"
    /\ \/ /\ wpc' = "emit_progress"
          /\ polls_left' = polls_left - 1
          /\ UNCHANGED w_exc
       \/ /\ wpc' = "except"
          /\ w_exc' = "error"
          /\ UNCHANGED polls_left
    /\ UNCHANGED <<status, pause_evt, cancel_evt, events, emitted, subscribers, w_outcome,
                   w_send, w_after, term_at, calls>>

\* _run, "except Exception as e": canceled if the cancel signal is set or the
\* error says so, failed otherwise
WExcept ==
    /\ wpc = "except"
    /\ IF cancel_evt \/ w_exc = "cancelled"
       THEN status' = "canceled" /\ wpc' = "emit_done"
       ELSE status' = "failed" /\ wpc' = "emit_error"
    /\ w_outcome' = status'
    /\ term_at' = emitted
    /\ UNCHANGED <<pause_evt, cancel_evt, events, emitted, subscribers, polls_left, w_exc,
                   w_send, w_after, calls>>

\* _run after the job function has returned: job.status = "succeeded"
WReturn ==
    /\ wpc = "return"
    /\ status' = "succeeded"
    /\ w_outcome' = "succeeded"
    /\ term_at' = emitted
    /\ wpc' = "emit_done"
    /\ UNCHANGED <<pause_evt, cancel_evt, events, emitted, subscribers, polls_left, w_exc,
                   w_send, w_after, calls>>

\* the steps of the worker thread
WorkerNext == WStart \/ WEmit \/ WDeliver \/ WWait \/ WCheck \/ WWork \/ WExcept \/ WReturn

\* pause, resume or cancel begins: it reads job.status and returns the snapshot
\* if the status does not allow the call
CallCheck ==
    /\ wpc # "idle"
    /\ \E c \in DOMAIN calls, op \in {"pause", "resume", "cancel"} :
          /\ calls[c].pc = "idle"
          /\ IF c = 1 THEN TRUE ELSE calls[c - 1].pc # "idle"
          /\ calls' = [calls EXCEPT ![c] = [@ EXCEPT !.op = op,
                          !.pc = IF CallPasses(op, status) THEN "write" ELSE "returned"]]
    /\ UNCHANGED <<status, pause_evt, cancel_evt, events, emitted, subscribers, wpc,
                   polls_left, w_exc, w_outcome, w_send, w_after, term_at>>

\* job.status = "paused" | "running" | "canceling"
CallWrite ==
    /\ \E c \in DOMAIN calls :
          /\ calls[c].pc = "write"
          /\ status' = CallStatus(calls[c].op)
          /\ calls' = [calls EXCEPT ![c].pc = "evt"]
    /\ UNCHANGED <<pause_evt, cancel_evt, events, emitted, subscribers, wpc, polls_left,
                   w_exc, w_outcome, w_send, w_after, term_at>>

\* pause_evt.set() of pause, pause_evt.clear() of resume, cancel_evt.set() and
\* then pause_evt.clear() of cancel
CallEvt ==
    /\ \E c \in DOMAIN calls :
          /\ calls[c].pc \in {"evt", "evt2"}
          /\ IF calls[c].op = "cancel" /\ calls[c].pc = "evt"
             THEN cancel_evt' = TRUE /\ UNCHANGED pause_evt
             ELSE pause_evt' = (calls[c].op = "pause") /\ UNCHANGED cancel_evt
          /\ calls' = [calls EXCEPT ![c].pc =
                          IF calls[c].op = "cancel" /\ calls[c].pc = "evt" THEN "evt2"
                          ELSE "emit"]
    /\ UNCHANGED <<status, events, emitted, subscribers, wpc, polls_left, w_exc, w_outcome,
                   w_send, w_after, term_at>>

\* the locked part of job.emit({"type": "state", ..., "status": job.status})
CallEmit ==
    /\ \E c \in DOMAIN calls :
       \E ev \in {[id |-> emitted + 1, type |-> "state", status |-> status]} :
          /\ calls[c].pc = "emit"
          /\ events' = Appended(events, ev)
          /\ calls' = [calls EXCEPT ![c] =
                          IF Subscribed(subscribers) = {}
                          THEN [@ EXCEPT !.pc = "returned"]
                          ELSE [@ EXCEPT !.pc = "deliver",
                                  !.send = [ev |-> ev, subs |-> Subscribed(subscribers)]]]
    /\ emitted' = emitted + 1
    /\ UNCHANGED <<status, pause_evt, cancel_evt, subscribers, wpc, polls_left, w_exc,
                   w_outcome, w_send, w_after, term_at>>

\* the puts of that emit, and the return of the call
CallDeliver ==
    /\ \E c \in DOMAIN calls :
          /\ calls[c].pc = "deliver"
          /\ subscribers' = Delivered(subscribers, calls[c].send)
          /\ calls' = [calls EXCEPT ![c] = [@ EXCEPT !.pc = "returned", !.send = NoSend]]
    /\ UNCHANGED <<status, pause_evt, cancel_evt, events, emitted, wpc, polls_left, w_exc,
                   w_outcome, w_send, w_after, term_at>>

\* ws_job_events: jm.subscribe(job_id), that is add_subscriber under the lock
SubAdd ==
    /\ \E s \in DOMAIN subscribers :
          /\ subscribers[s].st = "none"
          /\ subscribers' = [subscribers EXCEPT ![s] =
                                [st |-> "active", history |-> HistoryCopy(events),
                                 queue |-> <<>>]]
    /\ UNCHANGED <<status, pause_evt, cancel_evt, events, emitted, wpc, polls_left, w_exc,
                   w_outcome, w_send, w_after, term_at, calls>>

\* ws_job_events, "finally": job.remove_subscriber(q)
SubRemove ==
    /\ \E s \in DOMAIN subscribers :
          /\ subscribers[s].st = "active"
          /\ subscribers' = [subscribers EXCEPT ![s].st = "removed"]
    /\ UNCHANGED <<status, pause_evt, cancel_evt, events, emitted, wpc, polls_left, w_exc,
                   w_outcome, w_send, w_after, term_at, calls>>

----------------------------------------------------------------------------
(* Specifications: one per component, the other components at rest *)

alignRest == <<splitVars, normVars, schedVars, snapVars, indexVars, buildVars,
                 renderVars, scriptVars, partVars, capVars, jobVars>>
InitAlign == AlignInit /\ SplitIdle /\ NormIdle /\ SchedIdle /\ SnapIdle /\ IndexIdle 
             /\ BuildIdle /\ RenderIdle /\ ScriptIdle /\ PartIdle /\ CapIdle /\ JobIdle
NextAlign == AlignCall /\ UNCHANGED alignRest
SpecAlign == InitAlign /\ [][NextAlign]_vars

splitRest == <<alignVars, normVars, schedVars, snapVars, indexVars, buildVars,
                 renderVars, scriptVars, partVars, capVars, jobVars>>
InitSplit == SplitInit /\ AlignIdle /\ NormIdle /\ SchedIdle /\ SnapIdle /\ IndexIdle 
             /\ BuildIdle /\ RenderIdle /\ ScriptIdle /\ PartIdle /\ CapIdle /\ JobIdle
NextSplit == SplitCall /\ UNCHANGED splitRest
SpecSplit == InitSplit /\ [][NextSplit]_vars

normRest == <<alignVars, splitVars, schedVars, snapVars, indexVars, buildVars,
                renderVars, scriptVars, partVars, capVars, jobVars>>
InitNorm == NormInit /\ AlignIdle /\ SplitIdle /\ SchedIdle /\ SnapIdle /\ IndexIdle 
            /\ BuildIdle /\ RenderIdle /\ ScriptIdle /\ PartIdle /\ CapIdle /\ JobIdle
NextNorm == NormCall /\ UNCHANGED normRest
SpecNorm == InitNorm /\ [][NextNorm]_vars

schedRest == <<alignVars, splitVars, normVars, snapVars, indexVars, buildVars,
                 renderVars, scriptVars, partVars, capVars, jobVars>>
InitSched == SchedInit /\ AlignIdle /\ SplitIdle /\ NormIdle /\ SnapIdle /\ IndexIdle 
             /\ BuildIdle /\ RenderIdle /\ ScriptIdle /\ PartIdle /\ CapIdle /\ JobIdle
NextSched ==
    \/ SchedBegin /\ UNCHANGED schedRest
    \/ SchedUnit /\ UNCHANGED schedRest
    \/ SchedReturn /\ UNCHANGED schedRest
SpecSched == InitSched /\ [][NextSched]_vars

snapRest == <<alignVars, splitVars, normVars, schedVars, indexVars, buildVars,
                renderVars, scriptVars, partVars, capVars, jobVars>>
InitSnap == SnapInit /\ AlignIdle /\ SplitIdle /\ NormIdle /\ SchedIdle /\ IndexIdle 
            /\ BuildIdle /\ RenderIdle /\ ScriptIdle /\ PartIdle /\ CapIdle /\ JobIdle
NextSnap == SnapCall /\ UNCHANGED snapRest
SpecSnap == InitSnap /\ [][NextSnap]_vars

indexRest == <<alignVars, splitVars, normVars, schedVars, snapVars, buildVars,
                 renderVars, scriptVars, partVars, capVars, jobVars>>
InitIndex == IndexInit /\ AlignIdle /\ SplitIdle /\ NormIdle /\ SchedIdle /\ SnapIdle 
             /\ BuildIdle /\ RenderIdle /\ ScriptIdle /\ PartIdle /\ CapIdle /\ JobIdle
NextIndex ==
    \/ IndexShots /\ UNCHANGED indexRest
    \/ IndexClips /\ UNCHANGED indexRest
    \/ IndexAppend /\ UNCHANGED indexRest
    \/ IndexDone /\ UNCHANGED indexRest
SpecIndex == InitIndex /\ [][NextIndex]_vars

buildRest == <<alignVars, splitVars, normVars, schedVars, snapVars, indexVars,
                 renderVars, scriptVars, partVars, capVars, jobVars>>
InitBuild == BuildInit /\ AlignIdle /\ SplitIdle /\ NormIdle /\ SchedIdle /\ SnapIdle 
             /\ IndexIdle /\ RenderIdle /\ ScriptIdle /\ PartIdle /\ CapIdle /\ JobIdle
NextBuild ==
    \/ BuildSkip /\ UNCHANGED buildRest
    \/ BuildAdd /\ UNCHANGED buildRest
    \/ BuildReturn /\ UNCHANGED buildRest
SpecBuild == InitBuild /\ [][NextBuild]_vars

renderRest == <<alignVars, splitVars, normVars, schedVars, snapVars, indexVars,
                  buildVars, scriptVars, partVars, capVars, jobVars>>
InitRender == RenderInit /\ AlignIdle /\ SplitIdle /\ NormIdle /\ SchedIdle 
              /\ SnapIdle /\ IndexIdle /\ BuildIdle /\ ScriptIdle /\ PartIdle /\ CapIdle 
              /\ JobIdle
NextRender ==
    \/ RenderLoadMeta /\ UNCHANGED renderRest
    \/ RenderAlign /\ UNCHANGED renderRest
    \/ RenderSchedule /\ UNCHANGED renderRest
    \/ RenderWriteEdl /\ UNCHANGED renderRest
    \/ RenderSegment /\ UNCHANGED renderRest
    \/ RenderJoin /\ UNCHANGED renderRest
SpecRender == InitRender /\ [][NextRender]_vars

scriptRest == <<alignVars, splitVars, normVars, schedVars, snapVars, indexVars,
                  buildVars, renderVars, partVars, capVars, jobVars>>
InitScript == ScriptInit /\ AlignIdle /\ SplitIdle /\ NormIdle /\ SchedIdle 
              /\ SnapIdle /\ IndexIdle /\ BuildIdle /\ RenderIdle /\ PartIdle /\ CapIdle 
              /\ JobIdle
NextScript == ScriptCall /\ UNCHANGED scriptRest
SpecScript == InitScript /\ [][NextScript]_vars

partRest == <<alignVars, splitVars, normVars, schedVars, snapVars, indexVars,
                buildVars, renderVars, scriptVars, capVars, jobVars>>
InitPart == PartInit /\ AlignIdle /\ SplitIdle /\ NormIdle /\ SchedIdle /\ SnapIdle 
            /\ IndexIdle /\ BuildIdle /\ RenderIdle /\ ScriptIdle /\ CapIdle /\ JobIdle
NextPart == PartCall /\ UNCHANGED partRest
SpecPart == InitPart /\ [][NextPart]_vars

capRest == <<alignVars, splitVars, normVars, schedVars, snapVars, indexVars, buildVars,
               renderVars, scriptVars, partVars, jobVars>>
InitCap == CapInit /\ AlignIdle /\ SplitIdle /\ NormIdle /\ SchedIdle /\ SnapIdle 
           /\ IndexIdle /\ BuildIdle /\ RenderIdle /\ ScriptIdle /\ PartIdle /\ JobIdle
NextCap ==
    \/ CapFutureDone /\ UNCHANGED capRest
    \/ CapWait /\ UNCHANGED capRest
    \/ CapClip /\ UNCHANGED capRest
    \/ CapSubmit /\ UNCHANGED capRest
    \/ CapEndVideo /\ UNCHANGED capRest
    \/ CapDrained /\ UNCHANGED capRest
    \/ CapRetry /\ UNCHANGED capRest
    \/ CapFinish /\ UNCHANGED capRest
SpecCap == InitCap /\ [][NextCap]_vars

jobRest == <<alignVars, splitVars, normVars, schedVars, snapVars, indexVars, buildVars,
               renderVars, scriptVars, partVars, capVars>>
InitJob == JobInit /\ AlignIdle /\ SplitIdle /\ NormIdle /\ SchedIdle /\ SnapIdle 
           /\ IndexIdle /\ BuildIdle /\ RenderIdle /\ ScriptIdle /\ PartIdle /\ CapIdle
NextJob ==
    \/ WStart /\ UNCHANGED jobRest
    \/ WEmit /\ UNCHANGED jobRest
    \/ WDeliver /\ UNCHANGED jobRest
    \/ WWait /\ UNCHANGED jobRest
    \/ WCheck /\ UNCHANGED jobRest
    \/ WWork /\ UNCHANGED jobRest
    \/ WExcept /\ UNCHANGED jobRest
    \/ WReturn /\ UNCHANGED jobRest
    \/ CallCheck /\ UNCHANGED jobRest
    \/ CallWrite /\ UNCHANGED jobRest
    \/ CallEvt /\ UNCHANGED jobRest
    \/ CallEmit /\ UNCHANGED jobRest
    \/ CallDeliver /\ UNCHANGED jobRest
    \/ SubAdd /\ UNCHANGED jobRest
    \/ SubRemove /\ UNCHANGED jobRest
SpecJob == InitJob /\ [][NextJob]_vars

\* the worker thread keeps running: the scheduler of the threads is fair to it and
\* its waits are sleeps of 0.1 s
SpecJobLive == SpecJob /\ WF_vars(WorkerNext /\ UNCHANGED jobRest)

----------------------------------------------------------------------------
(* Properties of align_script_parts_to_words *)

AlignDone == align_pc = "done"

\* the cleaned script equals the cleaned word stream
ScriptMatches == Concat(part_tok(parts)) = Concat(word_tok(words))

\* every unit keeps at least one spoken character
AllUnitsSpoken == \A j \in 1..Len(parts) : _clean_spoken(parts[j]) # <<>>

Contiguous(out) == \A i \in 1..(Len(out) - 1) : out[i].en = out[i + 1].st

Ordered(out) == \A i \in 1..Len(out) : out[i].st <= out[i].en

\* C1 as stated: for a non-empty word list and a list of (spoken) units whose
\* cleaned concatenation equals the words', the call returns exactly len(units)
\* intervals, each start <= end, contiguous, and with total_dur given the first
\* starts at 0 and the last ends at total_dur.
C1_AsStated ==
    (AlignDone /\ words # <<>> /\ ScriptMatches /\ AllUnitsSpoken) =>
        /\ align_err = ""
        /\ Len(align_out) = Len(parts)
        /\ Ordered(align_out)
        /\ Contiguous(align_out)
        /\ (total_dur # None /\ align_out # <<>>) =>
              /\ align_out[1].st = 0
              /\ align_out[Len(align_out)].en = total_dur

\* C1 amended: as C1, for unit lists in which every unit keeps a spoken
\* character, and with the last interval ending at total_dur or, when total_dur
\* is less than 0.02 s after the last interval's start, 0.02 s after that start.
C1_AlignTotality ==
    (AlignDone /\ words # <<>> /\ ScriptMatches /\ AllUnitsSpoken) =>
        /\ align_err = ""
        /\ Len(align_out) = Len(parts)
        /\ Ordered(align_out)
        /\ Contiguous(align_out)
        /\ (total_dur # None /\ align_out # <<>>) =>
              /\ align_out[1].st = 0
              /\ align_out[Len(align_out)].en =
                    Max2(total_dur, align_out[Len(align_out)].st + MinUnitDur)

\* a matching script of three units aligned with total_dur given, where the
\* last interval had to end after total_dur
C1_Witness ==
    /\ AlignDone /\ words # <<>> /\ ScriptMatches /\ AllUnitsSpoken
    /\ Len(parts) = 3 /\ Len(align_out) = 3
    /\ total_dur # None
    /\ align_out[3].en > total_dur
    /\ align_out[1].en > MinUnitDur

\* the cleaned script is one inserted, deleted or substituted spoken character
\* away from the cleaned word stream
SingleEdit == Concat(part_tok(parts)) \in Edits(Concat(word_tok(words)))

\* C7 as stated (its first half): a script one spoken character away from the
\* words makes the call raise.
C7_AsStated == (AlignDone /\ SingleEdit) => align_err # ""

\* C7 amended: a script one spoken character away from the words never gets
\* intervals; the call raises (the mismatch error when the words and every
\* non-blank unit keep a spoken character, else the error for a missing or
\* empty word stream or for a unit without spoken characters), except that a
\* script without any non-blank unit returns the empty list without raising.
C7_AlignStrict ==
    (AlignDone /\ SingleEdit) =>
        /\ align_out = <<>>
        /\ (StripParts(parts) = <<>>) <=> (align_err = "")
        /\ (/\ StripParts(parts) # <<>>
            /\ word_tok(words) # <<>>
            /\ \A j \in 1..Len(StripParts(parts)) : _clean_spoken(StripParts(parts)[j]) # <<>>)
           <=> (align_err = "mismatch")

\* a substituted character in a script of the same length as the words, refused
C7_Witness ==
    /\ AlignDone /\ SingleEdit
    /\ Len(Concat(part_tok(parts))) = Len(Concat(word_tok(words)))
    /\ Len(parts) >= 2
    /\ align_err = "mismatch"

----------------------------------------------------------------------------
(* Properties of _pick_visual_segments_edgetts *)

SegShot(g) == <<g.source, g.shot_id>>

C3_SchedulerNovelty ==
    \A i \in 1..Len(segments) : \A j \in 1..(i - 1) :
        (picks[i].tier = 1 /\ SegShot(segments[i]) = SegShot(segments[j]))
            => picks[i].at - picks[j].at >= dedup_window_sec

\* with a cooldown of 3 s the second unit reuses, from tier 1, the shot of the
\* first unit once 3 s of output lie between them
C3_Witness ==
    /\ Len(segments) = 2
    /\ dedup_window_sec > 0
    /\ picks[2].tier = 1
    /\ SegShot(segments[2]) = SegShot(segments[1])
    /\ picks[2].at - picks[1].at = dedup_window_sec

\* C4 as stated: two consecutive segments from the same source file are at
\* least the minimum same-source gap apart (in >= previous out + gap).
C4_AsStated ==
    \A i \in 2..Len(segments) :
        segments[i].source = segments[i - 1].source
            => segments[i].in >= segments[i - 1].out + MinSameSourceGap

\* C4 amended: when two consecutive segments use the same source file and the
\* later one was accepted in the candidate loop, its in-time is at least the
\* earlier out-time plus the gap, or it is the latest in-time its shot allows
\* (shot_end - target), which may still overlap the earlier window; when every
\* candidate was skipped, the top-ranked candidate (cand[0], while cand still
\* holds that unit's list) is used with the window centred on its clip, not
\* shifted at all.
C4_SameSourceGap ==
    \A i \in 2..Len(segments) :
        LET g == segments[i]
            h == segments[i - 1]
        IN  /\ (g.source = h.source /\ picks[i].rank > 0) =>
                  \/ g.in >= h.out + MinSameSourceGap
                  \/ g.in = g.shot_end - picks[i].target
            /\ picks[i].rank = 0 =>
                  /\ g.source = h.source
                  /\ g.in < h.out + MinSameSourceGap
                  /\ g.in = Max2(g.shot_start,
                                 Min2((clips[g.anchor_ci].start + clips[g.anchor_ci].end) \div 2
                                          - picks[i].target \div 2,
                                      g.shot_end - picks[i].target))
                  /\ (i = Len(segments) /\ cand # <<>>) => SegShot(g) = <<cand[1].src, cand[1].sid>>

\* a same-source candidate was shifted by the whole gap, and another pass ended
\* in the unshifted fallback
C4_Witness ==
    /\ Len(segments) = 2
    /\ segments[2].source = segments[1].source
    /\ picks[2].rank > 0
    /\ segments[2].in = segments[1].out + MinSameSourceGap
    /\ segments[2].in < segments[2].shot_end - picks[2].target

\* C5 as stated: the scheduler does not fail in the unit loop: a unit that no
\* shot is long enough for still gets a segment and the pass continues.
C5_AsStated ==
    /\ sched_err \in {"", "missing_shots"}
    /\ sched_pc \in {"loop", "done"} => Len(segments) = Len(unit_times)

\* C6 as stated: the candidates are tried with the higher adjusted score first,
\* shot length (longer first) deciding only between equal scores; with a hit
\* among them only candidates with hits are tried.
C6_AsStated ==
    /\ (\E a \in 1..Len(cand) : cand[a].hit > 0) => \A a \in 1..Len(cand) : cand[a].hit > 0
    /\ \A a \in 1..Len(cand) : \A b \in (a + 1)..Len(cand) :
          \/ cand[a].sc > cand[b].sc
          \/ cand[a].sc = cand[b].sc /\ cand[a].shot_len >= cand[b].shot_len

\* C6 amended: with a hit among them only candidates with hits are tried, and
\* they are tried in descending order of the number of keyword hits, then of
\* adjusted score, then of shot length.
C6_Ranking ==
    /\ (\E a \in 1..Len(cand) : cand[a].hit > 0) => \A a \in 1..Len(cand) : cand[a].hit > 0
    /\ \A a \in 1..Len(cand) : \A b \in (a + 1)..Len(cand) :
          \/ cand[a].hit > cand[b].hit
          \/ cand[a].hit = cand[b].hit /\ cand[a].sc > cand[b].sc
          \/ /\ cand[a].hit = cand[b].hit
             /\ cand[a].sc = cand[b].sc
             /\ cand[a].shot_len >= cand[b].shot_len

\* a candidate with two hits is tried before one with one hit and a higher
\* adjusted score, and of two candidates equal in hits and score the longer
\* shot is tried first
C6_Witness ==
    /\ Len(cand) = 3
    /\ cand[1].hit > cand[2].hit
    /\ cand[1].sc < cand[2].sc
    /\ cand[2].hit = cand[3].hit
    /\ cand[2].sc = cand[3].sc
    /\ cand[2].shot_len > cand[3].shot_len

LacksShot(c) == ~(c.shot_id >= 0) \/ c.source_path = ""

\* C10 as stated: with at least one clip record lacking a non-negative shot id
\* or a source path, building the shot index fails.
C10_AsStated ==
    (sched_pc # "start" /\ n_units > 0 /\ \E i \in 1..Len(clips) : LacksShot(clips[i]))
        => sched_err = "missing_shots"

\* C10 amended: records lacking a non-negative shot id or a source path are
\* left out of the shot index; the scheduler fails for missing shots exactly
\* when every record lacks one of them (no record at all included).
C10_ShotIndex ==
    (sched_pc # "start" /\ n_units > 0) =>
        /\ DOMAIN shot_map =
              {<<clips[i].source_path, clips[i].shot_id>> :
                  i \in {j \in 1..Len(clips) : ~LacksShot(clips[j])}}
        /\ (sched_err = "missing_shots") <=> (\A i \in 1..Len(clips) : LacksShot(clips[i]))

\* an index with a record without source path, one without shot id and good
\* records was scheduled to the end
C10_Witness ==
    /\ sched_pc = "done"
    /\ Len(segments) = 2
    /\ \E i \in 1..Len(clips) : clips[i].source_path = ""
    /\ \E i \in 1..Len(clips) : clips[i].shot_id < 0


----------------------------------------------------------------------------
(* Properties of split_one_line *)

\* C8: for every text and max_chars >= 1, every chunk has visible length at
\* most max_chars, no chunk is empty, and the chunks joined in order are the
\* text's non-whitespace characters in order.
C8_SplitBound ==
    split_pc = "done" =>
        /\ \A i \in 1..Len(chunks) :
              /\ _visible_len_zh(chunks[i]) <= max_chars
              /\ chunks[i] # <<>>
        /\ Concat(chunks) = SelectSeq(text, LAMBDA ch : ch \notin SpaceChars)

\* a text was cut at its last punctuation mark, before the chunk was full
\* (a hard cut would have taken one more character)
C8_Witness ==
    /\ split_pc = "done"
    /\ Len(chunks) = 2
    /\ chunks[1][Len(chunks[1])] \in PunctChars
    /\ _visible_len_zh(chunks[1]) < max_chars
    /\ _visible_len_zh(chunks[1]) + _visible_len_zh(chunks[2]) > max_chars

----------------------------------------------------------------------------
(* Properties of _normalize_slices *)

Dur(x) == x.e - x.s

\* first start to last end of the input
Span(sl) == sl[Len(sl)].e - sl[1].s

\* C9 as stated: with min <= target <= max every returned shot has a duration
\* in [min, max], except a single returned shot when the total is below min.
C9_AsStated ==
    (norm_pc = "done" /\ bounds3.min <= bounds3.target /\ bounds3.target <= bounds3.max) =>
        \/ \A i \in 1..Len(norm_out) :
              Dur(norm_out[i]) >= bounds3.min /\ Dur(norm_out[i]) <= bounds3.max
        \/ Len(norm_out) = 1 /\ Span(slices) < bounds3.min

\* C9 amended: with min <= target <= max and max at least twice the effective
\* minimum max(min, 0.5 s), every returned shot has a duration in
\* [max(min, 0.5 s), max], except that when the input spans less than the
\* effective minimum the one returned shot is that span.
C9_ShotBounds ==
    (/\ norm_pc = "done"
     /\ slices # <<>>
     /\ bounds3.min <= bounds3.target
     /\ bounds3.target <= bounds3.max
     /\ bounds3.max >= 2 * Max2(bounds3.min, HalfSec)) =>
        IF Span(slices) < Max2(bounds3.min, HalfSec)
        THEN norm_out = <<[s |-> slices[1].s, e |-> slices[Len(slices)].e]>>
        ELSE /\ norm_out # <<>>
             /\ \A i \in 1..Len(norm_out) :
                   /\ Dur(norm_out[i]) >= Max2(bounds3.min, HalfSec)
                   /\ Dur(norm_out[i]) <= bounds3.max

\* a slice shorter than min was merged into its neighbour and the result, longer
\* than max, was cut with the cut pulled back to leave min for the remainder
C9_Witness ==
    /\ norm_pc = "done"
    /\ bounds3.max >= 2 * Max2(bounds3.min, HalfSec)
    /\ Len(slices) = 2
    /\ Dur(slices[1]) < bounds3.min
    /\ Len(norm_out) = 2
    /\ Dur(norm_out[1]) < bounds3.target
    /\ Dur(norm_out[2]) = bounds3.min


----------------------------------------------------------------------------
(* Properties of _snap_line_times_to_fps *)

RECURSIVE SumSeq(_)
SumSeq(q) == IF q = <<>> THEN 0 ELSE Head(q) + SumSeq(Tail(q))

StrictlyIncreasing(q) == \A i \in 1..(Len(q) - 1) : q[i] < q[i + 1]

\* the ceiling of total_dur * fps, for the fps the function works with
CeilFrames == (Max2(0, voice_dur) * ClampFps(fps) + (Second - 1)) \div Second

\* C11 as stated: for any non-empty list of lines, any fps and any total
\* duration the end frames are strictly increasing, the first is at least 1,
\* the last is the total frame count (the ceiling of total_dur * fps, read as
\* at least one frame), and the frame counts sum to it.
C11_AsStated ==
    (snap_pc = "done" /\ line_times # <<>>) =>
        /\ StrictlyIncreasing(end_frames)
        /\ end_frames[1] >= 1
        /\ end_frames[Len(end_frames)] = Max2(1, CeilFrames)
        /\ SumSeq(frames_per) = Max2(1, CeilFrames)

\* C11 amended: with total_frames = max(1, ceiling(max(0, total_dur) * fps)),
\* fps being clamped to [10, 60] (25 when not positive), and with no more lines
\* than total_frames, the end frames are strictly increasing, the first is at
\* least 1, the last is total_frames and the frame counts sum to total_frames;
\* with more lines than that the last end frame is still total_frames.
C11_SnapFrames ==
    (snap_pc = "done" /\ line_times # <<>>) =>
        /\ Len(end_frames) = Len(line_times)
        /\ Len(frames_per) = Len(line_times)
        /\ end_frames[Len(end_frames)] = Max2(1, CeilFrames)
        /\ Len(line_times) <= Max2(1, CeilFrames) =>
              /\ StrictlyIncreasing(end_frames)
              /\ end_frames[1] >= 1
              /\ SumSeq(frames_per) = Max2(1, CeilFrames)

\* three lines on three frames (0.1 s at 25 fps, 2.5 frames rounded up), the
\* first two ending on the same frame before the passes
C11_Witness ==
    /\ snap_pc = "done"
    /\ Len(line_times) = 3
    /\ line_times[1].en = line_times[2].en
    /\ CeilFrames = 3
    /\ (Max2(0, voice_dur) * ClampFps(fps)) % Second # 0
    /\ end_frames = <<1, 2, 3>>
    /\ frames_per = <<1, 1, 1>>

----------------------------------------------------------------------------
(* Further properties of _pick_visual_segments_edgetts *)

\* the shot is long enough for the target (within the 1e-6 s tolerance)
LongEnough(k, target) == shot_map[k].end - shot_map[k].start + Eps6 >= target

\* shot k was given to a unit less than dedup_window_sec of output before unit i
Cooling(k, i) ==
    \E j \in 1..(i - 1) : SegShot(segments[j]) = k /\ picks[i].at - picks[j].at < dedup_window_sec

\* the target the failing unit asked for
FailedTarget == Max2(MinTarget, unit_times[Len(unit_times)].en - unit_times[Len(unit_times)].st)

----------------------------------------------------------------------------
(* Further properties of split_one_line *)

\* C13 as stated: the scenario text with max_chars = 4 is cut after each
\* punctuation mark: one chunk per group, its mark attached.
C13_AsStated ==
    (split_pc = "done" /\ text = ScenarioText /\ max_chars = 4) =>
        chunks = << <<"c1", "c2", "c3", ",">>, <<"c4", "c5", "c6", ".">>, <<"c7", "c8", "c9">> >>

\* C13 amended: the scenario text with max_chars = 4 is cut after every fourth
\* visible character, mid-group; with max_chars = 3 it is cut into one chunk per
\* group; and for every text a chunk before the last either holds exactly
\* max_chars visible characters (hard cut) or ends with a punctuation mark that
\* at least max(4, max_chars // 2) visible characters precede.
C13_ScenarioCuts ==
    split_pc = "done" =>
        /\ (text = ScenarioText /\ max_chars = 4) =>
              chunks = << <<"c1", "c2", "c3", ",", "c4">>,
                          <<"c5", "c6", ".", "c7", "c8">>,
                          <<"c9">> >>
        /\ (text = ScenarioText /\ max_chars = 3) =>
              chunks = << <<"c1", "c2", "c3", ",">>,
                          <<"c4", "c5", "c6", ".">>,
                          <<"c7", "c8", "c9">> >>
        /\ \A i \in 1..(Len(chunks) - 1) :
              \/ _visible_len_zh(chunks[i]) = max_chars
              \/ /\ chunks[i][Len(chunks[i])] \in PunctChars
                 /\ _visible_len_zh(chunks[i]) >= Max2(4, max_chars \div 2)

\* the scenario was split with max_chars = 4 into three chunks
C13_Witness ==
    /\ split_pc = "done"
    /\ text = ScenarioText
    /\ max_chars = 4
    /\ Len(chunks) = 3

\* C14: the k-th segment built carries unit index k (counted from 0) and the
\* k-th unit's start and end; a call that returns has exactly one segment per
\* unit, and a call that does not return them all has failed with an error.
C14_OnePerUnit ==
    /\ \A k \in 1..Len(segments) :
          /\ segments[k].unit_i = k - 1
          /\ segments[k].start = unit_times[k].st
          /\ segments[k].end = unit_times[k].en
    /\ Len(segments) <= n_units
    /\ sched_pc = "done" => Len(segments) = n_units
    /\ sched_pc = "failed" => sched_err # ""
    /\ sched_err # "" => sched_pc = "failed"

\* a call for two units of different lengths returned two segments
C14_Witness ==
    /\ sched_pc = "done"
    /\ n_units = 2
    /\ Len(segments) = 2
    /\ segments[2].unit_i = 1
    /\ segments[1].end - segments[1].start # segments[2].end - segments[2].start

----------------------------------------------------------------------------
(* Properties of the slicing in run_index_job *)

\* the detected cuts the slicing takes into account
InnerCuts == {c \in cuts : CutMargin < c /\ c < video_dur - CutMargin}

\* the warning "what" was logged for the video being sliced
Warned(what) == \E k \in 1..Len(index_log) : index_log[k] = [video |-> vi + 1, what |-> what]

\* a detected cut lies strictly between the shot bounds of clip c
CrossesCut(c) == \E x \in InnerCuts : c.shot_start < x /\ x < c.shot_end

\* the window of clip c lies inside its shot
InsideShot(c) == c.shot_start <= c.start /\ c.start < c.end /\ c.end <= c.shot_end

C17_AsStated ==
    (Warned("scene_failed") \/ Warned("empty")) => index_pc # "hung"

\* the clips of the video being sliced that belong to its j-th shot
ClipsOfShot(j) == SelectSeq(video_clips, LAMBDA c : c.shot_id = j - 1)

RawShotLen(j) == shots[j].e - shots[j].s

\* the j-th shot is kept whole, as one clip
KeptWhole(j) ==
    ClipsOfShot(j) = <<ClipOf(shots[j].s, shots[j].e, j - 1, shots[j].s, shots[j].e)>>

\* the clips of the j-th shot carry its bounds and tile it, each at least mn long
TilesShot(j, mn) ==
    LET cs == ClipsOfShot(j)
    IN  /\ cs # <<>>
        /\ \A i \in 1..Len(cs) :
              /\ cs[i].shot_start = shots[j].s
              /\ cs[i].shot_end = shots[j].e
              /\ cs[i].end - cs[i].start >= mn
        /\ cs[1].start = shots[j].s
        /\ cs[Len(cs)].end = shots[j].e
        /\ \A i \in 1..(Len(cs) - 1) : cs[i].end = cs[i + 1].start

\* the clips are the windows of the shots (scene mode, no empty-result fallback)
Windowed == index_pc = "clips" /\ slice_mode = "scene" /\ ~Warned("empty")

\* C18 as stated: a shot no longer than max_sec is kept whole; a longer shot is
\* tiled by clips of at least min_sec that carry its id and bounds.
C18_AsStated ==
    Windowed =>
        \A j \in 1..Len(shots) :
            IF RawShotLen(j) <= clip_bounds.max THEN KeptWhole(j)
            ELSE TilesShot(j, clip_bounds.min)

\* C18 amended: with min' = max(0.5 s, min_sec) and max' = max(min', max_sec), a
\* shot no longer than max' is kept whole as one clip; a longer shot is tiled
\* by contiguous clips of at least min' each that carry its id and bounds, the
\* first starting at shot_start and the last ending at shot_end; every clip
\* belongs to one of the shots.
C18_Windows ==
    Windowed =>
        /\ \A j \in 1..Len(shots) :
              IF RawShotLen(j) <= WindowMax(clip_bounds) THEN KeptWhole(j)
              ELSE TilesShot(j, WindowMin(clip_bounds))
        /\ \A i \in 1..Len(video_clips) : video_clips[i].shot_id \in 0..(Len(shots) - 1)

\* a shot longer than max' was cut into several windows, the last one stretched
\* beyond target_sec to reach the end of the shot
C18_Witness ==
    /\ Windowed
    /\ \E j \in 1..Len(shots) :
          /\ RawShotLen(j) > WindowMax(clip_bounds)
          /\ Len(ClipsOfShot(j)) >= 2
          /\ \E c \in {ClipsOfShot(j)[Len(ClipsOfShot(j))]} :
                c.end - c.start > WindowTarget(clip_bounds)

----------------------------------------------------------------------------
(* Units without a spoken character in align_script_parts_to_words *)

\* the unit has no spoken character
CleansEmpty(u) == _clean_spoken(u) = <<>>

\* the errors raised before whole_script is compared with whole_words
UpFrontErrors == {"missing_words", "empty_words", "empty_part"}

\* C16 as stated: a unit made of punctuation and/or whitespace only makes the
\* call fail with an error raised before the text comparison.
C16_AsStated ==
    (align_pc = "done" /\ \E j \in 1..Len(parts) : CleansEmpty(parts[j])) =>
        align_err \in UpFrontErrors

\* C16 amended: a unit that is not blank and has no spoken character makes the
\* call fail before the text comparison (with the "only punctuation" error
\* when the words are usable); an empty or whitespace-only unit is dropped
\* first: it never causes that error, and a call that returns gives one
\* interval per non-blank unit.
C16_EmptyUnit ==
    align_pc = "done" =>
        /\ (\E j \in 1..Len(parts) : NonBlank(parts[j]) /\ CleansEmpty(parts[j])) =>
              /\ align_err \in UpFrontErrors
              /\ word_tok(words) # <<>> => align_err = "empty_part"
        /\ (\A j \in 1..Len(parts) : NonBlank(parts[j]) => ~CleansEmpty(parts[j])) =>
              align_err # "empty_part"
        /\ align_err = "" => Len(align_out) = Len(SelectSeq(parts, NonBlank))

\* a script with a punctuation-only unit was rejected for that unit
C16_Witness ==
    /\ align_pc = "done"
    /\ \E j \in 1..Len(parts) : NonBlank(parts[j]) /\ CleansEmpty(parts[j])
    /\ Len(parts) >= 2
    /\ align_err = "empty_part"

----------------------------------------------------------------------------
(* Properties of _build_shot_index *)

\* the records of the index that carry key k
GroupOf(k) ==
    {i \in 1..Len(index_clips) :
        /\ index_clips[i].source_path # ""
        /\ index_clips[i].shot_id >= 0
        /\ <<index_clips[i].source_path, index_clips[i].shot_id>> = k}

\* the shot bounds a record stands for: its own window when shot_end is not
\* after shot_start
BoundsOf(c) ==
    IF c.shot_end - c.shot_start > Eps6 THEN <<c.shot_start, c.shot_end>> ELSE <<c.start, c.end>>

\* the members of a list, and whether it lists nothing twice
Members(q) == {q[j] : j \in 1..Len(q)}

\* C19: the shot index has one shot per (source_path, shot_id) found on a
\* record with a valid key; a shot's clip list holds exactly the records with
\* its key, each once and in index order, so every such record is in exactly
\* one list and the others in none; and the shot's bounds are the least start
\* and the greatest end over the bounds of the records of its group.
C19_ShotGroups ==
    build_pc = "done" =>
        /\ DOMAIN build_map = {k \in {<<index_clips[i].source_path, index_clips[i].shot_id>> :
                                         i \in 1..Len(index_clips)} : GroupOf(k) # {}}
        /\ \A k \in DOMAIN build_map :
              /\ Members(build_map[k].clip_idxs) = GroupOf(k)
              /\ StrictlyIncreasing(build_map[k].clip_idxs)
              /\ build_map[k].source = k[1]
              /\ build_map[k].shot_id = k[2]
              /\ \A i \in GroupOf(k) :
                    /\ build_map[k].start <= BoundsOf(index_clips[i])[1]
                    /\ build_map[k].end >= BoundsOf(index_clips[i])[2]
              /\ \E i \in GroupOf(k) : build_map[k].start = BoundsOf(index_clips[i])[1]
              /\ \E i \in GroupOf(k) : build_map[k].end = BoundsOf(index_clips[i])[2]
        /\ \A i \in 1..Len(index_clips) :
              Cardinality({k \in DOMAIN build_map : i \in Members(build_map[k].clip_idxs)})
                  = IF ValidClip(index_clips[i]) THEN 1 ELSE 0
        /\ build_map = _build_shot_index(index_clips)

\* a shot was built from three records, one of them without valid shot bounds,
\* beside a record without a valid key
C19_Witness ==
    /\ build_pc = "done"
    /\ \E k \in DOMAIN build_map :
          /\ Len(build_map[k].clip_idxs) = 2
          /\ \E i \in GroupOf(k) : index_clips[i].shot_end <= index_clips[i].shot_start
          /\ build_map[k].start < build_map[k].end
    /\ \E i \in 1..Len(index_clips) : ~ValidClip(index_clips[i])

----------------------------------------------------------------------------
(* Properties of run_render_job *)

\* C20: a run ended by an error of parsing the timing metadata or of aligning
\* the script has not called the scheduler, has written no edit-decision list
\* and has rendered no segment; and the scheduler is called, the list written
\* and segments rendered only after both steps succeeded.
C20_AbortBeforeScheduling ==
    /\ render_err \in TimingErrors =>
          /\ render_pc = "failed"
          /\ ~sched_called
          /\ ~edl_written
          /\ seg_paths = 0
    /\ render_pc \in {"meta", "align"} => ~sched_called /\ ~edl_written /\ seg_paths = 0
    /\ (sched_called \/ edl_written \/ seg_paths > 0) =>
          /\ MetaError(meta_file, meta_words, probed_dur) = ""
          /\ AlignError(meta_words, script_lines, probed_dur) = ""
    /\ render_pc = "failed" <=> render_err # ""

\* a run was ended by the strict text comparison of the alignment
C20_Witness ==
    /\ render_pc = "failed"
    /\ render_err = "mismatch"
    /\ meta_file = "ok"
    /\ Len(script_lines) >= 2

----------------------------------------------------------------------------
(* C21: the shared boundary of two neighbouring units *)

\* the units that reach the alignment, and the two token streams
C21_Parts == StripParts(parts)

C21_Acc(j) == Len(Concat(SubSeq(part_tok(C21_Parts), 1, j)))

\* every inner unit boundary coincides with the end of a word token
OnTokenBoundaries ==
    \A j \in 1..(Len(C21_Parts) - 1) :
        \E k \in 1..Len(word_tok(words)) : cum_end(word_tok(words), k) = C21_Acc(j)

\* the (1-based) token that ends unit j
LastTok(j) ==
    CHOOSE k \in 1..Len(word_tok(words)) : cum_end(word_tok(words), k) = C21_Acc(j)

\* midpoint of the end of unit j's last word and the start of unit j+1's first word
WordMid(j) ==
    (words[word_map(words)[LastTok(j)]].end
        + words[word_map(words)[LastTok(j) + 1]].start) \div 2

C21_Case == AlignDone /\ align_err = "" /\ Len(C21_Parts) >= 2 /\ OnTokenBoundaries

\* C21 as stated: when every unit boundary coincides with a word-token boundary,
\* the boundary shared by unit i and unit i+1 is the midpoint of the end of unit
\* i's last word and the start of unit i+1's first word.
C21_AsStated ==
    C21_Case =>
        \A j \in 1..(Len(align_out) - 1) :
            align_out[j].en = WordMid(j) /\ align_out[j + 1].st = WordMid(j)

\* C21: when every unit boundary coincides with a word-token boundary, unit i
\* ends and unit i+1 starts at the same time, which is the midpoint of the end of
\* unit i's last word and the start of unit i+1's first word unless that would
\* leave unit i shorter than 0.02 s: the boundary is the later of the midpoint
\* and unit i's start plus 0.02 s.
C21_MidpointBoundary ==
    C21_Case =>
        /\ Len(align_out) = Len(C21_Parts)
        /\ \A j \in 1..(Len(align_out) - 1) :
              /\ align_out[j].en = Max2(WordMid(j), align_out[j].st + MinUnitDur)
              /\ align_out[j + 1].st = align_out[j].en

\* two units separated by a real gap between their words, cut at its midpoint
C21_Witness ==
    /\ C21_Case
    /\ \E j \in 1..(Len(align_out) - 1) :
          /\ words[word_map(words)[LastTok(j)]].end
                < words[word_map(words)[LastTok(j) + 1]].start
          /\ align_out[j].en = WordMid(j)
          /\ align_out[j].en > words[word_map(words)[LastTok(j)]].end
          /\ align_out[j + 1].st = WordMid(j)

----------------------------------------------------------------------------
(* C23: the scheduler's bookkeeping per unit *)

\* the step just scheduled a unit: it appended the segment seg
UnitScheduled == ui' = ui + 1

\* the unit's target after the 0.05 s clamp
PostClampTarget(seg) == Max2(MinTarget, seg.end - seg.start)

\* C23: when a unit is scheduled, one segment is appended and the earlier ones
\* stay as they were; the chosen shot's last-used time becomes the cumulative
\* output time before the unit and no other shot's changes; the cumulative
\* output time grows by the unit's post-clamp target; the previous source and
\* the previous source out time become the chosen segment's source and out.
C23_Bookkeeping ==
    [][UnitScheduled =>
        /\ Len(segments') = Len(segments) + 1
        /\ SubSeq(segments', 1, Len(segments)) = segments
        /\ LET seg == segments'[Len(segments')]
               key == <<seg.source, seg.shot_id>>
           IN  /\ key \in DOMAIN used
               /\ used'[key] = out_t
               /\ \A k \in DOMAIN used \ {key} : used'[k] = used[k]
               /\ out_t' = out_t + PostClampTarget(seg)
               /\ seg.out - seg.in = PostClampTarget(seg)
               /\ prev_src' = seg.source
               /\ prev_out_src_t' = seg.out]_vars

\* two units were scheduled, the first one shorter than 0.05 s: the second one's
\* shot was last used at the clamped length of the first, and the totals add up
C23_Witness ==
    /\ sched_pc = "done"
    /\ Len(segments) = 2
    /\ segments[1].end - segments[1].start < MinTarget
    /\ used[<<segments[2].source, segments[2].shot_id>>] = MinTarget
    /\ out_t = MinTarget + PostClampTarget(segments[2])
    /\ prev_src = segments[2].source
    /\ prev_out_src_t = segments[2].out

----------------------------------------------------------------------------
(* C26: termination and shape of the fixed-length slicing *)

\* a finite list of slices in increasing order, none overlapping, from 0
OrderedFromZero(fs) ==
    /\ \A i \in 1..Len(fs) : fs[i].s < fs[i].e
    /\ \A i \in 1..(Len(fs) - 1) : fs[i].e <= fs[i + 1].s
    /\ fs # <<>> => fs[1].s = 0

\* C26 as stated: for every duration and every configured slice length, the
\* request's fixed_clip_sec_fallback included, _fixed_slices terminates (the job
\* never stays in its loop) and returns non-overlapping slices in increasing
\* order that start at 0.
C26_AsStated ==
    /\ index_pc # "hung"
    /\ (index_pc # "idle" /\ ~FixedHangs(video_dur, fixed_clip_sec_fallback)) =>
          OrderedFromZero(_fixed_slices(video_dur, fixed_clip_sec_fallback))

----------------------------------------------------------------------------
(* C25: where _split_script places the unit boundaries *)

\* positions of the characters of the text that are not white space, in order
Visible(raw) == SelectSeq([i \in 1..Len(raw) |-> i], LAMBDA i : raw[i] \notin WhiteChars)

Squeeze(s) == SelectSeq(s, LAMBDA ch : ch \notin WhiteChars)

\* the unit boundaries, each as the number of visible characters before it
UnitEnds(units) ==
    {Len(Squeeze(Concat(SubSeq(units, 1, k)))) : k \in 1..(Len(units) - 1)}

\* position p lies between a Chinese opening quote and its closing quote, or
\* between an odd-numbered ASCII quote and the next one
InsideQuotes(raw, p) ==
    \/ \E i \in 1..(p - 1) : raw[i] = "lq" /\ \A j \in (i + 1)..p : raw[j] # "rq"
    \/ Cardinality({i \in 1..(p - 1) : raw[i] = "dq"}) % 2 = 1

\* the single quote state after position p: set by the last opening quote,
\* cleared by the last closing quote, flipped by each ASCII quote
RECURSIVE FlagAt(_, _)
FlagAt(raw, p) ==
    IF p = 0 THEN FALSE
    ELSE IF raw[p] = "lq" THEN TRUE
    ELSE IF raw[p] = "rq" THEN FALSE
    ELSE IF raw[p] = "dq" THEN ~FlagAt(raw, p - 1)
    ELSE FlagAt(raw, p - 1)

\* a newline lies between the b-th and the (b+1)-th visible character
NewlineAt(raw, b) ==
    \E i \in (Visible(raw)[b] + 1)..(Visible(raw)[b + 1] - 1) : raw[i] = "nl"

\* the b-th visible character is a split mark, the last of its run if a dash
MarkAt(raw, b) ==
    LET p == Visible(raw)[b]
    IN  /\ raw[p] \in split_chars
        /\ ~(raw[p] \in dash_chars /\ p + 1 <= Len(raw) /\ raw[p + 1] \in dash_chars)

\* no unit is empty or padded, and the units hold the visible text in order
UnitsCoverText ==
    /\ \A k \in 1..Len(script_units) :
          script_units[k] # <<>> /\ PyStrip(script_units[k]) = script_units[k]
    /\ Squeeze(Concat(script_units)) = Squeeze(script_text)

----------------------------------------------------------------------------
(* C24: the ranges returned by _partition_words_by_part_weights *)

\* the call went past the early returns, into the DP
PartSearched ==
    pw_pc = "done" /\ part_weights # <<>> /\ Len(part_weights) < Len(pw_words)

\* it ended on the weight-proportional fallback
PartFellBack ==
    PartSearched /\ NeedsFallback(pw_words, ClampWeights(part_weights), pw_total)

\* C24: for a non-empty word list of n words and a non-empty weight list of k
\* weights the ranges returned are non-empty, in order and contiguous, start at 0,
\* end at n and cover every word exactly once; there is one range per weight
\* when k <= n (and one per word otherwise), whether the DP or the fallback
\* produced them.
C24_Partition ==
    (pw_pc = "done" /\ pw_words # <<>> /\ part_weights # <<>>) =>
        /\ groups # <<>>
        /\ groups[1].a = 0
        /\ groups[Len(groups)].b = Len(pw_words)
        /\ \A i \in 1..Len(groups) : groups[i].a < groups[i].b
        /\ \A i \in 1..(Len(groups) - 1) : groups[i].b = groups[i + 1].a
        /\ \A w \in 0..(Len(pw_words) - 1) :
              Cardinality({i \in 1..Len(groups) : groups[i].a <= w /\ w < groups[i].b}) = 1
        /\ Len(groups) = Min2(Len(part_weights), Len(pw_words))

\* the fallback split three words for two weights, the heavier group first
C24_Witness ==
    /\ PartFellBack
    /\ Len(pw_words) = 3
    /\ groups = <<[a |-> 0, b |-> 2], [a |-> 2, b |-> 3]>>

----------------------------------------------------------------------------
(* C29, C30: the caption requests in flight and the clip texts *)

\* C29: at every moment of an index job the caption requests in flight, the
\* ones submitted and not yet drained, are at most the caption_in_flight limit,
\* which lies in 1..32.
C29_InFlightBounded ==
    cap_pc # "idle" =>
        /\ cap_in_flight \in 1..32
        /\ Cardinality(pending) <= cap_in_flight

\* the limit is reached with every request still running while a clip is left:
\* the clip loop waits for a request to be drained
C29_Witness ==
    /\ cap_pc = "clips"
    /\ cap_si < cap_n
    /\ Cardinality(pending) = cap_in_flight
    /\ \A f \in pending : f.st = "running"

\* the text of the clip c holds a failure marker
TextHasMarker(c) == \E i \in 1..Len(clip_texts[c]) : IsFailed(clip_texts[c][i])

\* C30 as stated: once the index job has completed, no clip text holds a
\* caption-failure marker: a frame whose request failed, in the make-up pass
\* too, adds nothing to the text of its clip.
C30_AsStated ==
    cap_pc = "done" => \A c \in 1..Len(clip_texts) : ~TextHasMarker(c)

----------------------------------------------------------------------------
(* C22: a cancelled job stops at its next polling point *)

\* the worker thread has a polling point ahead of it
HasNextPoll ==
    \/ wpc \in {"queued", "emit_running", "wait", "check"}
    \/ wpc = "deliver" /\ w_after = "wait"
    \/ wpc = "emit_progress" /\ polls_left > 0
    \/ wpc = "work" /\ polls_left > 1

----------------------------------------------------------------------------
(* C27: the status after the worker thread has ended the job *)

\* the worker thread has set the status the job ends with
WorkerEnded == w_outcome # ""

\* the events emitted after that
LaterEvents == {i \in 1..Len(events) : events[i].id > term_at}

\* C27 as stated: once the worker thread has set the status to "succeeded",
\* "failed" or "canceled", no pause, resume or cancel call changes the status
\* again or emits a further "state" event, whatever the interleaving.
C27_AsStated ==
    WorkerEnded =>
        /\ status = w_outcome
        /\ \A i \in LaterEvents : events[i].type # "state"

----------------------------------------------------------------------------
(* C28: what a subscriber added in the middle of a job sees *)

\* how many times the sequence evs holds the event ev
TimesIn(evs, ev) == Cardinality({i \in 1..Len(evs) : evs[i] = ev})

\* the emits that hold ev between their locked part and their put to s
PutsAhead(s, ev) ==
    (IF w_send.ev = ev /\ s \in w_send.subs THEN 1 ELSE 0)
    + Cardinality({c \in DOMAIN calls : calls[c].send.ev = ev /\ s \in calls[c].send.subs})

\* how many times the subscriber s sees ev, the puts still ahead counted
Seen(s, ev) ==
    TimesIn(subscribers[s].history, ev) + TimesIn(subscribers[s].queue, ev) + PutsAhead(s, ev)

\* C28: while the history holds fewer than 5000 events, a subscriber added at
\* any moment of the job sees every emitted event exactly once: the event is in
\* the history add_subscriber returned, or it is put on the queue of the
\* subscriber (the put done or still ahead of its emit), never both and never
\* neither; a subscriber that has left has seen no event twice.
C28_ExactlyOnce ==
    Len(events) < _MAX_EVENTS_PER_JOB =>
        \A s \in DOMAIN subscribers : \A i \in 1..Len(events) :
            /\ subscribers[s].st = "active" => Seen(s, events[i]) = 1
            /\ subscribers[s].st = "removed" => Seen(s, events[i]) <= 1

\* a subscriber added in the middle of a running job was handed a history and
\* has events of the worker thread and of an API call on its queue
C28_Witness ==
    /\ wpc = "exited"
    /\ \A c \in DOMAIN calls : calls[c].pc \in {"idle", "returned"}
    /\ \E s \in DOMAIN subscribers :
          /\ subscribers[s].st = "active"
          /\ Len(subscribers[s].history) > 0
          /\ \E i, j \in 1..Len(subscribers[s].queue) :
                /\ subscribers[s].queue[i].type = "state"
                /\ subscribers[s].queue[j].type = "done"
          /\ Len(subscribers[s].history) + Len(subscribers[s].queue) = Len(events)

====
